--------------------------- MODULE Spec2Model ---------------------------
(***************************************************************************)
(* Record / replay determinism check of gpu-rl-case-study.                 *)
(*                                                                         *)
(*   replay/record.py  main : drives an environment and a policy for up to *)
(*                            args.steps iterations, writes telemetry.csv  *)
(*                            and run.json                                 *)
(*   replay/replay.py  main : re-drives a fresh environment with the       *)
(*                            actions of run.json and compares the total   *)
(*                            reward and the final observation hash        *)
(*   envs/ale.py, envs/base.py : the environment adapter and obs_hash      *)
(*                                                                         *)
(* Each of the two programs is single-threaded; one action of the model is *)
(* one straight-line piece of main (the prologue, one loop iteration, the  *)
(* epilogue).  Rewards are fixed-point numbers in units of 1e-7.           *)
(***************************************************************************)
EXTENDS Integers, Sequences, FiniteSets, TLC

VARIABLES
    args,         \* record.py: the argparse namespace
    rec,          \* record.py main: its locals and its position
    rec_env,      \* the environment handle record.py owns
    telemetry,    \* telemetry.csv: the rows written after the header
    run_json,     \* run.json: the persisted artifact, or NoFile
    rp,           \* replay.py main: its locals, its output and its position
    rp_env,       \* the environment handle replay.py owns
    resetTable,   \* the environment as a function: reset seed -> observation
    stepTable,    \* <<reset seed, actions since reset>> -> StepResult
    pol,          \* policies.py: two policy instances under one driver
    rngTable,     \* the generators as a function: <<seed, requests>> -> value
    api,          \* one call of a function of the package from outside main,
                  \* or what an earlier replay process did
    runs,         \* the runs directory and the record.py processes that share it
    ex,           \* export_video.py main: its locals and its position
    ex_env        \* the environment handle export_video.py owns

vars == <<args, rec, rec_env, telemetry, run_json, rp, rp_env, resetTable, stepTable,
          pol, rngTable, api, runs, ex, ex_env>>

-----------------------------------------------------------------------------
(* Bounds and input domains *)

\* The largest step budget (--steps) explored.
MaxSteps == 3

\* --steps is type=int: a negative budget is accepted by argparse.
StepBudgets == (0 - 1) .. MaxSteps

\* --seed values.
Seeds == {0, 41}

\* The discrete actions a policy may return (action_space_n = 2).
ActionSpace == {0, 1}

\* 1.0 of reward, in units of 1e-7.
OneReward == 10 * 1000 * 1000

\* The 1e-6 tolerance of the reward comparison, in units of 1e-7.
Tolerance == 10

\* Process exit codes.
MismatchExit == 2
UsageExit == 2
OkExit == 0

-----------------------------------------------------------------------------
(* Observations and their fingerprint: envs/base.py *)

\* An ndarray of one-byte elements: its shape, its buffer, and whether the
\* buffer is in row-major ("C") or column-major ("F") order.
ObsA == [shape |-> <<2>>, bytes |-> <<0, 1>>, order |-> "C"]
ObsB == [shape |-> <<2>>, bytes |-> <<1, 0>>, order |-> "C"]
NoObs == [shape |-> <<>>, bytes |-> <<>>, order |-> "C"]

ObsSpace == {ObsA, ObsB}

\* np.ascontiguousarray(obs).tobytes(): the elements in row-major order.
RowMajor(o) ==
    IF o.order = "C" \/ Len(o.shape) < 2
    THEN o.bytes
    ELSE LET r == o.shape[1]
             c == o.shape[2]
         IN  [k \in 1..(r * c) |-> o.bytes[((k - 1) % c) * r + ((k - 1) \div c) + 1]]

\* str() of an int below ten, and the repr of a byte inside a bytes literal.
Digits == <<"0", "1", "2", "3", "4", "5", "6", "7", "8", "9">>
ByteRepr == <<"\\x00", "\\x01">>

\* repr of a tuple of ints: "()", "(2,)", "(1, 2)", as a sequence of tokens.
ShapeRepr(shape) ==
    LET elems[i \in 0..Len(shape)] ==
            IF i = 0 THEN <<>>
            ELSE elems[i - 1] \o (IF i = 1 THEN <<>> ELSE <<", ">>)
                              \o <<Digits[shape[i] + 1]>>
    IN  <<"(">> \o elems[Len(shape)] \o (IF Len(shape) = 1 THEN <<",">> ELSE <<>>)
              \o <<")">>

\* repr of a bytes object: b'...'.
BytesRepr(b) == <<"b'">> \o [i \in 1..Len(b) |-> ByteRepr[b[i] + 1]] \o <<"'">>

ObsPayload_BytesOnly(o) == BytesRepr(RowMajor(o))

\* str((obs.shape, b)): the text that is encoded and fed to sha256.
ObsPayload(o) ==
    <<"(">> \o ShapeRepr(o.shape) \o <<", ">> \o BytesRepr(RowMajor(o)) \o <<")">>

\* The length of sha256's hexdigest.
HexDigestLen == 64

\* hashlib.sha256(text.encode()).hexdigest(): sha256 is taken as
\* collision-free, so a digest is represented by the text it was computed
\* from.
Sha256Hex(text) == [len |-> HexDigestLen, of |-> text]

\* obs_hash(obs).
obs_hash(o) == Sha256Hex(ObsPayload(o))

\* A digest that is the fingerprint of no observation of the environment.
BogusHash == Sha256Hex(<<"bogus">>)

-----------------------------------------------------------------------------
(* The environment collaborator: envs/ale.py, envs/base.py *)

\* StepResult values the environment may return: both observations and both
\* rewards occur, with no done flag, with terminated alone and with truncated
\* alone.
StepResults ==
    { [obs |-> ObsA, reward |-> 0,         terminated |-> FALSE, truncated |-> FALSE],
      [obs |-> ObsB, reward |-> OneReward, terminated |-> FALSE, truncated |-> FALSE],
      [obs |-> ObsA, reward |-> OneReward, terminated |-> TRUE,  truncated |-> FALSE],
      [obs |-> ObsB, reward |-> 0,         terminated |-> FALSE, truncated |-> TRUE] }

NoSeed == 0 - 1

\* A freshly constructed ALEEnv: not yet reset, nothing called.
EnvNew == [seed |-> NoSeed, hist |-> <<>>, calls |-> <<>>]

\* The handle after reset(seed=s) returned observation o.  `calls` is the log
\* of the calls made on the handle, each with its argument and what it returned.
EnvAfterReset(e, s, o) ==
    [seed |-> s, hist |-> <<>>,
     calls |-> Append(e.calls, [op |-> "reset", arg |-> s, ret |-> o])]

\* The handle after step(a) returned StepResult sr.
EnvAfterStep(e, a, sr) ==
    [seed |-> e.seed, hist |-> Append(e.hist, a),
     calls |-> Append(e.calls, [op |-> "step", arg |-> a, ret |-> sr])]

\* The handle after close().
EnvAfterClose(e) ==
    [seed |-> e.seed, hist |-> e.hist,
     calls |-> Append(e.calls, [op |-> "close", arg |-> 0, ret |-> 0])]

\* The environment is deterministic: what reset(seed) returns is a function of
\* the seed, what step returns is a function of the last reset seed and the
\* actions taken since.  The function is arbitrary; it is fixed the first time
\* a point of it is observed.
ResetReturns(s, o) ==
    IF s \in DOMAIN resetTable
    THEN o = resetTable[s] /\ UNCHANGED resetTable
    ELSE resetTable' = (s :> o) @@ resetTable

StepReturns(e, a, sr) ==
    LET key == <<e.seed, Append(e.hist, a)>> IN
    IF key \in DOMAIN stepTable
    THEN sr = stepTable[key] /\ UNCHANGED stepTable
    ELSE stepTable' = (key :> sr) @@ stepTable

EmptyTable == [x \in {} |-> 0]

\* The handle after a call of `op` that raised instead of returning.
EnvAfterRaise(e, op, arg) ==
    [seed |-> e.seed, hist |-> e.hist,
     calls |-> Append(e.calls, [op |-> "raise", arg |-> <<op, arg>>, ret |-> 0])]


-----------------------------------------------------------------------------
(* replay/record.py *)

NoFile == [exists |-> FALSE]

\* f"{x:.6f}": a reward (units of 1e-7) rounded to six decimals (units of 1e-6).
Fmt6(x) == (x + 5) \div 10

\* int(b) of a bool.
BoolInt(b) == IF b THEN 1 ELSE 0

\* A loop that runs one iteration too many.
RangeHasNext_Inclusive(i, n) == i <= n

\* `for step in range(args.steps)`: whether the iterator yields another index.
RangeHasNext(i, n) == i < n

\* done = sr.terminated or sr.truncated
RecDone(sr) == sr.terminated \/ sr.truncated

\* A loop that never breaks.
RecBreaks_Never(done, single_episode) == FALSE

\* if done: if args.single_episode: break
RecBreaks(done, single_episode) == done /\ single_episode

\* A reseed that forgets the + 1.
RecNewSeed_NoPlusOne(seed, step) == seed + step

\* new_seed = args.seed + step + 1
RecNewSeed(seed, step) == seed + step + 1

\* An append that drops an action equal to the one recorded before it.
RecAppendAction_Dedup(actions, action) ==
    IF Len(actions) > 0 /\ actions[Len(actions)] = action
    THEN actions
    ELSE Append(actions, action)

\* actions.append(action)
RecAppendAction(actions, action) == Append(actions, action)

\* An epilogue that never releases the environment.
RecClose_Leak(e) == e

\* env.close() at line 224.
RecClose(e) == EnvAfterClose(e)

\* policy.act(step=step, obs=obs, reward=last_reward, done=last_done) of
\* iteration r.step, which returned `action`.
PolicyActCall(r, action) ==
    [step |-> r.step, obs |-> r.obs, reward |-> r.last_reward,
     done |-> r.last_done, ret |-> action]

Range(s) == { s[i] : i \in 1..Len(s) }

\* _POLICIES: name -> heap cell of the registered prototype.
RegisteredPolicies == [random |-> 1, sticky_dir |-> 2]

\* The order sorted() gives the names that occur.
PolicyNameOrder == <<"dqn", "random", "sticky_dir">>

ListPolicies_FirstOnly(registry) ==
    SubSeq(SelectSeq(PolicyNameOrder, LAMBDA x : x \in DOMAIN registry), 1, 1)

\* list_policies(): sorted(_POLICIES.keys()).
ListPolicies(registry) ==
    SelectSeq(PolicyNameOrder, LAMBDA x : x \in DOMAIN registry)

\* No exception.
NoError == [type |-> "", text |-> "", name |-> "", valid |-> <<>>]

\* make_policy's ValueError: "Unknown policy '<name>'. Valid: <names>".
UnknownPolicy(registry, name) ==
    [type |-> "ValueError", text |-> "Unknown policy",
     name |-> name, valid |-> ListPolicies(registry)]

-----------------------------------------------------------------------------
(* envs/registry.py *)

\* _ENV_SPECS, in insertion order.
EnvSpecs ==
    ("pacman" :> [key |-> "pacman", env_id |-> "ALE/Pacman-v5",
                  obs_type |-> "pixels", description |-> "Atari Pacman (pixels)"]) @@
    ("pacman-ram" :> [key |-> "pacman-ram", env_id |-> "ALE/Pacman-ram-v5",
                      obs_type |-> "state", description |-> "Atari Pacman (RAM/state)"])

\* list_envs(): the values of _ENV_SPECS in insertion order.
ListEnvs == << EnvSpecs["pacman"], EnvSpecs["pacman-ram"] >>

\* The order sorted() gives the keys that occur.
EnvKeyOrder == <<"invalid", "pacman", "pacman-ram">>

\* No EnvSpec: get_env_spec raised.
NoEnvSpec == [key |-> "", env_id |-> "", obs_type |-> "", description |-> ""]

\* get_env_spec(key): ValueError "Unknown env key '<key>'. Valid: <keys>" for a
\* key that is not registered.
GetEnvSpec(key) ==
    IF key \notin DOMAIN EnvSpecs
    THEN [spec |-> NoEnvSpec,
          error |-> [type |-> "ValueError", text |-> "Unknown env key", name |-> key,
                     valid |-> SelectSeq(EnvKeyOrder, LAMBDA x : x \in DOMAIN EnvSpecs)]]
    ELSE [spec |-> EnvSpecs[key], error |-> NoError]

\* ALEEnv(env_id=..., render_mode=..., frameskip=..., repeat_action_probability=...):
\* the constructor's arguments (render_mode is not modelled); __post_init__
\* calls gym.make with them.
ALEEnvArgs(env_id, frameskip, repeat_action_probability) ==
    [env_id |-> env_id, frameskip |-> frameskip,
     repeat_action_probability |-> repeat_action_probability]

\* make_env(env_key, render_mode=..., frameskip=..., repeat_action_probability=...):
\* get_env_spec, then the ALEEnv constructor.  ctor lists the constructor
\* calls made.
MakeEnv(env_key, frameskip, repeat_action_probability) ==
    LET g == GetEnvSpec(env_key)
    IN  IF g.error # NoError
        THEN [spec |-> g.spec, error |-> g.error, ctor |-> <<>>]
        ELSE [spec |-> g.spec, error |-> NoError,
              ctor |-> <<ALEEnvArgs(g.spec.env_id, frameskip, repeat_action_probability)>>]

-----------------------------------------------------------------------------
(* record.py: the command line *)

\* The defaults of --env, --policy, --frameskip and --sticky.
EnvKeyDefault == "pacman"
PolicyDefault == "sticky_dir"
FrameskipDefault == 4
StickyDefault == 0

ArgparseChoice_Any(value, choices) == TRUE

\* argparse's check of an option declared with choices=...
ArgparseChoice(value, choices) == value \in Range(choices)

\* parser.error for a value outside the choices: the usage message
\* "argument <option>: invalid choice: '<value>' (choose from <choices>)".
InvalidChoice(option, value, choices) ==
    [type |-> "SystemExit", text |-> option, name |-> value, valid |-> choices]

\* The errors parse_args can end with: one per option whose value is not among
\* its choices (argparse reports the first such option of the command line).
ParseErrors(a) ==
    LET env_keys == [i \in 1..Len(ListEnvs) |-> ListEnvs[i].key]
        policies == ListPolicies(RegisteredPolicies)
    IN  (IF ArgparseChoice(a.env_key, env_keys) THEN {}
         ELSE {InvalidChoice("--env", a.env_key, env_keys)})
        \cup
        (IF ArgparseChoice(a.policy, policies) THEN {}
         ELSE {InvalidChoice("--policy", a.policy, policies)})

\* No record.py process is followed, and export_video.py is not run.
NoRuns == [dirs |-> {}, files |-> {}, procs |-> <<>>]
ExportOff == [pc |-> "off"]

\* Nothing was called from outside main.
NoCall == [fn |-> "none"]

\* main's locals before line 121.
RecStart ==
    [pc |-> "start", obs |-> NoObs, obs_from |-> 0, actions |-> <<>>,
     total_reward |-> 0, episode_return |-> 0, last_reward |-> 0,
     last_done |-> FALSE, episode_id |-> 0, episode_step |-> 0, step |-> 0,
     final_hash |-> BogusHash, policy_calls |-> <<>>,
     run_dir |-> FALSE, env_ctor |-> <<>>, err |-> NoError, exit |-> <<>>, out |-> <<>>,
     policy_resets |-> <<>>]

\* Lines 47-81: parse_args, and main's test of --list-envs.  An option whose
\* value is not among its choices ends the program with status 2.
RecordParseArgs ==
    /\ rec.pc = "argv"
    /\ IF ParseErrors(args) # {}
       THEN \E err \in ParseErrors(args) :
               rec' = [rec EXCEPT !.pc = "usage_error", !.err = err, !.exit = <<UsageExit>>]
       ELSE rec' = [rec EXCEPT !.pc = IF args.list_envs THEN "listing" ELSE "start"]
    /\ UNCHANGED <<args, rec_env, telemetry, run_json, rp, rp_env, resetTable, stepTable>>
    /\ UNCHANGED <<pol, rngTable, api,
                   runs, ex, ex_env>>

\* Lines 82-85: --list-envs prints the registered environments and returns.
RecordListEnvs ==
    /\ rec.pc = "listing"
    /\ rec' = [rec EXCEPT !.pc = "listed", !.out = ListEnvs]
    /\ UNCHANGED <<args, rec_env, telemetry, run_json, rp, rp_env, resetTable, stepTable>>
    /\ UNCHANGED <<pol, rngTable, api,
                   runs, ex, ex_env>>

RecPolicySeed_Unseeded(a) == NoSeed

\* Line 114: seed=args.seed.
RecPolicySeed(a) == a.seed

\* Lines 113-119: policy.reset(seed=args.seed, ...), logged with the number of
\* environments constructed and of environment calls made before it.
RecPolicyReset(a, ctor, env) ==
    [seed |-> RecPolicySeed(a), ctor_calls |-> Len(ctor), env_calls |-> Len(env.calls)]

\* Lines 87-150: the run directory, make_env, policy.reset, the first
\* env.reset(seed=args.seed), the accumulators and the telemetry header.
RecordBegin ==
    /\ rec.pc = "start"
    /\ LET m == MakeEnv(args.env_key, args.frameskip, args.sticky)
       IN  IF m.error # NoError
           THEN /\ rec' = [rec EXCEPT !.pc = "crashed", !.run_dir = TRUE, !.err = m.error]
                /\ UNCHANGED <<rec_env, resetTable>>
           ELSE IF args.policy \notin DOMAIN RegisteredPolicies
           THEN /\ rec' = [rec EXCEPT !.pc = "crashed", !.run_dir = TRUE,
                                      !.env_ctor = m.ctor,
                                      !.err = UnknownPolicy(RegisteredPolicies, args.policy)]
                /\ UNCHANGED <<rec_env, resetTable>>
           ELSE \E o \in ObsSpace :
                  /\ ResetReturns(args.seed, o)
                  /\ rec_env' = EnvAfterReset(EnvNew, args.seed, o)
                  /\ rec' = [rec EXCEPT !.pc = "loop", !.obs = o, !.obs_from = 1,
                                        !.run_dir = TRUE, !.env_ctor = m.ctor,
                                        !.policy_resets =
                                            Append(@, RecPolicyReset(args, m.ctor, EnvNew))]
    /\ telemetry' = <<>>
    /\ UNCHANGED <<args, run_json, rp, rp_env, stepTable>>
    /\ UNCHANGED <<pol, rngTable, api,
                   runs, ex, ex_env>>

\* The telemetry row of lines 168-182 (wall_ms is not modelled).
TelemetryRow(r, action, sr, done, episode_return, o) ==
    [episode_id |-> r.episode_id, episode_step |-> r.episode_step, step |-> r.step,
     action |-> action, reward |-> Fmt6(sr.reward),
     terminated |-> BoolInt(sr.terminated), truncated |-> BoolInt(sr.truncated),
     done |-> BoolInt(done), episode_return |-> Fmt6(episode_return),
     obs_hash |-> obs_hash(o)]

RecAccumulate_Last(sum, reward) == reward

\* Lines 161-162: total_reward += sr.reward, episode_return += sr.reward.
RecAccumulate(sum, reward) == sum + reward

RecNextEpisode_Same(episode_id) == episode_id

\* Line 193: episode_id += 1 after the reset that follows a done step.
RecNextEpisode(episode_id) == episode_id + 1

RecObsAfterReset_Discarded(step_obs, reset_obs) == step_obs

\* Line 191: obs, _info = env.reset(seed=new_seed) replaces the observation
\* of the step that ended the episode.
RecObsAfterReset(step_obs, reset_obs) == reset_obs

\* Lines 152-197: one iteration of the recording loop.  The policy is any
\* implementation of the Policy protocol: it may return any action.
RecordStep ==
    /\ rec.pc = "loop"
    /\ RangeHasNext(rec.step, args.steps)
    /\ \E action \in ActionSpace, sr \in StepResults :
          LET step           == rec.step
              env1           == EnvAfterStep(rec_env, action, sr)
              done           == RecDone(sr)
              episode_return == RecAccumulate(rec.episode_return, sr.reward)
              after_step     ==
                  [rec EXCEPT !.policy_calls = Append(rec.policy_calls,
                                                      PolicyActCall(rec, action)),
                              !.actions = RecAppendAction(rec.actions, action),
                              !.obs = sr.obs,
                              !.obs_from = Len(env1.calls),
                              !.total_reward = RecAccumulate(rec.total_reward, sr.reward),
                              !.episode_return = episode_return,
                              !.last_reward = sr.reward,
                              !.last_done = done,
                              !.episode_step = rec.episode_step + 1,
                              !.step = step + 1]
          IN  /\ StepReturns(rec_env, action, sr)
              /\ telemetry' = Append(telemetry,
                     TelemetryRow(rec, action, sr, done, episode_return, sr.obs))
              /\ IF ~done
                 THEN /\ rec' = after_step
                      /\ rec_env' = env1
                      /\ UNCHANGED resetTable
                 ELSE IF RecBreaks(done, args.single_episode)
                 THEN /\ rec' = [after_step EXCEPT !.pc = "after_loop"]
                      /\ rec_env' = env1
                      /\ UNCHANGED resetTable
                 ELSE LET new_seed == RecNewSeed(args.seed, step) IN
                      \E o \in ObsSpace :
                         LET env2 == EnvAfterReset(env1, new_seed, o) IN
                             /\ ResetReturns(new_seed, o)
                             /\ rec_env' = env2
                             /\ rec' = [after_step EXCEPT
                                           !.obs = RecObsAfterReset(sr.obs, o),
                                           !.obs_from = Len(env2.calls),
                                           !.episode_id = RecNextEpisode(rec.episode_id),
                                           !.episode_step = 0,
                                           !.episode_return = 0,
                                           !.last_reward = 0,
                                           !.last_done = FALSE]
    /\ UNCHANGED <<args, run_json, rp, rp_env>>
    /\ UNCHANGED <<pol, rngTable, api,
                   runs, ex, ex_env>>

\* final_hash = obs_hash(obs)
RecFinalHash(r) == obs_hash(r.obs)

\* json.dump of lines 210-222 (run_id and created_unix_s are not modelled).
RunJson(a, actions, total_reward, final_hash) ==
    LET env_spec == GetEnvSpec(a.env_key).spec
    IN  [exists |-> TRUE,
         spec |-> [env_key |-> env_spec.key, env_id |-> env_spec.env_id,
                   obs_type |-> env_spec.obs_type, seed |-> a.seed, steps |-> a.steps,
                   policy |-> a.policy, frameskip |-> a.frameskip,
                   repeat_action_probability |-> a.sticky,
                   single_episode |-> a.single_episode],
         actions |-> actions, total_reward |-> total_reward,
         final_obs_hash |-> final_hash, missing |-> {}]

\* Lines 199-224: the loop is over (budget exhausted, or break): final hash,
\* run.json, env.close().
RecordFinish ==
    /\ \/ rec.pc = "after_loop"
       \/ rec.pc = "loop" /\ ~RangeHasNext(rec.step, args.steps)
    /\ LET final_hash == RecFinalHash(rec) IN
          /\ rec' = [rec EXCEPT !.pc = "done", !.final_hash = final_hash]
          /\ run_json' = RunJson(args, rec.actions, rec.total_reward, final_hash)
    /\ rec_env' = RecClose(rec_env)
    /\ UNCHANGED <<args, telemetry, rp, rp_env, resetTable, stepTable>>
    /\ UNCHANGED <<pol, rngTable, api,
                   runs, ex, ex_env>>

-----------------------------------------------------------------------------
(* replay/replay.py *)

Abs(x) == IF x < 0 THEN 0 - x ELSE x

\* A done that ignores truncation.
ReplayDone_TerminatedOnly(sr) == sr.terminated

\* done = sr.terminated or sr.truncated
ReplayDone(sr) == sr.terminated \/ sr.truncated

\* A reseed that forgets the + 1.
ReplayNewSeed_NoPlusOne(seed, step) == seed + step

\* new_seed = seed + step + 1
ReplayNewSeed(seed, step) == seed + step + 1

\* A tolerance test that accepts a difference of exactly 1e-6.
OkReward_Inclusive(total_reward, expected_total_reward) ==
    Abs(total_reward - expected_total_reward) <= Tolerance

\* float(data["total_reward"]), and the literal 1e-6: the double nearest to a
\* decimal.  The table gives double minus decimal, in units of 1e-24 (IEEE 754
\* binary64, round to nearest even), for the decimals one tolerance away from
\* a whole reward and for 1.0000009.
Binary64Table ==
    (Tolerance :> (0 - 45)) @@
    (OneReward - Tolerance :> (0 - 28755664)) @@
    (OneReward + Tolerance - 1 :> 81391249) @@
    (OneReward + Tolerance :> (0 - 82266637)) @@
    (2 * OneReward - Tolerance :> 82266637) @@
    (2 * OneReward + Tolerance :> 139777966) @@
    (3 * OneReward - Tolerance :> (0 - 139777966)) @@
    (3 * OneReward + Tolerance :> 139777966) @@
    (4 * OneReward - Tolerance :> (0 - 139777966)) @@
    (4 * OneReward + Tolerance :> 139777966) @@
    (5 * OneReward - Tolerance :> (0 - 139777966)) @@
    (5 * OneReward + Tolerance :> 139777966)

\* Whole numbers are doubles.
Binary64Residue(x) == IF x % OneReward = 0 THEN 0 ELSE Binary64Table[x]

\* ok_reward = abs(total_reward - expected_total_reward) < 1e-6, on doubles:
\* the difference of two doubles this close is computed exactly, so where the
\* decimals are exactly 1e-6 apart the residues of the operands and of the
\* literal 1e-6 decide.
OkReward(total_reward, expected_total_reward) ==
    LET d == Abs(total_reward - expected_total_reward)
        r == IF total_reward > expected_total_reward
             THEN Binary64Residue(total_reward) - Binary64Residue(expected_total_reward)
             ELSE Binary64Residue(expected_total_reward) - Binary64Residue(total_reward)
    IN  IF d = Tolerance THEN r < Binary64Residue(Tolerance) ELSE d < Tolerance

\* ok_hash = last_hash == expected_final_hash
OkHash(last_hash, expected_final_hash) == last_hash = expected_final_hash

\* if not (ok_reward and ok_hash): raise SystemExit(2)
ExitCode(ok_reward, ok_hash) ==
    IF ~(ok_reward /\ ok_hash) THEN MismatchExit ELSE OkExit

\* env.close() at line 59.
ReplayClose(e) == EnvAfterClose(e)

\* run.json as replay.py reads it: a JSON object is a record together with
\* the set of keys the document lacks (`missing`; what the record holds under
\* such a key is not in the document).  The keys of the object and of its
\* "spec" object are distinct names, so one set serves both.
RequiredKeys ==
    <<"spec", "actions", "total_reward", "final_obs_hash", "env_id", "seed">>

\* The keys of "spec" that replay.py reads with a default or not at all.
OptionalKeys ==
    {"frameskip", "repeat_action_probability", "env_key", "obs_type", "policy",
     "steps", "single_episode"}

\* The defaults of spec.get("frameskip", 4) and
\* spec.get("repeat_action_probability", 0.0).
ReplayFrameskipDefault == 4
ReplayRepeatDefault == 0

FirstMissing_TopLevelOnly(d) ==
    LET miss == SelectSeq(SubSeq(RequiredKeys, 1, 4), LAMBDA k : k \in d.missing)
    IN  IF miss = <<>> THEN "" ELSE Head(miss)

\* Lines 25-38 subscript data["spec"], data["actions"], data["total_reward"],
\* data["final_obs_hash"], spec["env_id"] and spec["seed"], in this order: the
\* first of them the document lacks ("" if none); without "spec" there is no
\* later subscript.
FirstMissing(d) ==
    LET miss == SelectSeq(RequiredKeys, LAMBDA k : k \in d.missing)
    IN  IF miss = <<>> THEN "" ELSE Head(miss)

\* The KeyError of a subscript with a key the object lacks.
KeyError(key) == [type |-> "KeyError", text |-> "", name |-> key, valid |-> <<>>]

SpecGet_NoDefault(d, key, default) == d.spec[key]

\* spec.get(key, default).
SpecGet(d, key, default) ==
    IF key \in d.missing THEN default ELSE d.spec[key]

\* Lines 24-38: what main has when it reaches env.reset, or the KeyError that
\* ended it.  The ALEEnv constructor is called after spec["env_id"] is read
\* and before spec["seed"] is.
ReplayLoad(d) ==
    LET k == FirstMissing(d)
        ctor == << ALEEnvArgs(d.spec.env_id,
                              SpecGet(d, "frameskip", ReplayFrameskipDefault),
                              SpecGet(d, "repeat_action_probability", ReplayRepeatDefault)) >>
    IN  IF k = ""
        THEN [error |-> NoError, ctor |-> ctor]
        ELSE [error |-> KeyError(k), ctor |-> IF k = "seed" THEN ctor ELSE <<>>]

\* Lines 64-68: the lines printed from the spec.
ReportHeader(d) ==
    << [label |-> "env_key",  value |-> SpecGet(d, "env_key", "n/a")],
       [label |-> "env_id",   value |-> d.spec.env_id],
       [label |-> "obs_type", value |-> SpecGet(d, "obs_type", "n/a")],
       [label |-> "policy",   value |-> SpecGet(d, "policy", "n/a")] >>

\* main's locals before line 22.
ReplayStart ==
    [pc |-> "start", data |-> NoFile, obs |-> NoObs, hash_from |-> 0,
     total_reward |-> 0, last_hash |-> BogusHash, step |-> 0,
     ok_reward |-> FALSE, ok_hash |-> FALSE, out |-> <<>>, exit |-> <<>>,
     env_ctor |-> <<>>, err |-> NoError, head |-> <<>>]

\* parse_args: --run is required; without it argparse reports the usage error
\* and exits the process.
ParseExit(has_run) == IF has_run THEN <<>> ELSE <<UsageExit>>

\* Line 21: replay is started once the recording it is given has ended.
ReplayParseArgs ==
    /\ rp.pc = "start"
    /\ rec.pc \in {"done", "off"}
    /\ \E has_run \in BOOLEAN :
          rp' = [rp EXCEPT !.pc = IF has_run THEN "parsed" ELSE "usage_error",
                           !.exit = ParseExit(has_run)]
    /\ UNCHANGED <<args, rec, rec_env, telemetry, run_json, rp_env, resetTable, stepTable>>
    /\ UNCHANGED <<pol, rngTable, api,
                   runs, ex, ex_env>>

\* Lines 22-42: load run.json, construct the environment, the first reset.
ReplayBegin ==
    /\ rp.pc = "parsed"
    /\ run_json.exists
    /\ LET l == ReplayLoad(run_json)
           seed == run_json.spec.seed
       IN  IF l.error # NoError
           THEN /\ rp' = [rp EXCEPT !.pc = "crashed", !.err = l.error,
                                    !.env_ctor = l.ctor, !.exit = <<1>>]
                /\ UNCHANGED <<rp_env, resetTable>>
           ELSE \E o \in ObsSpace :
                  LET env1 == EnvAfterReset(EnvNew, seed, o) IN
                      /\ ResetReturns(seed, o)
                      /\ rp_env' = env1
                      /\ rp' = [rp EXCEPT !.pc = "loop", !.data = run_json, !.obs = o,
                                          !.total_reward = 0, !.last_hash = obs_hash(o),
                                          !.hash_from = Len(env1.calls),
                                          !.env_ctor = l.ctor]
    /\ UNCHANGED <<args, rec, rec_env, telemetry, run_json, stepTable>>
    /\ UNCHANGED <<pol, rngTable, api,
                   runs, ex, ex_env>>

ReplayLoopHasNext_SpecSteps(d, step) == step < Len(d.actions) /\ step < d.spec.steps

\* Line 47, `for step, action in enumerate(actions)`: there is an iteration
\* `step` while the recorded actions last.
ReplayLoopHasNext(d, step) == step < Len(d.actions)

ReplayAction_First(actions, step) == actions[1]

\* `for step, action in enumerate(actions)`: the action of iteration `step`
\* (int(action) leaves a recorded action, an int, as it is).
ReplayAction(actions, step) == actions[step + 1]

\* Lines 47-57: one iteration of `for step, action in enumerate(actions)`.
ReplayStep ==
    /\ rp.pc = "loop"
    /\ ReplayLoopHasNext(rp.data, rp.step)
    /\ LET step   == rp.step
           action == ReplayAction(rp.data.actions, step)
           seed   == rp.data.spec.seed
       IN  \E sr \in StepResults :
              LET env1 == EnvAfterStep(rp_env, action, sr)
                  after_step ==
                      [rp EXCEPT !.obs = sr.obs,
                                 !.total_reward = rp.total_reward + sr.reward,
                                 !.last_hash = obs_hash(sr.obs),
                                 !.hash_from = Len(env1.calls),
                                 !.step = step + 1]
              IN  /\ StepReturns(rp_env, action, sr)
                  /\ IF ~ReplayDone(sr)
                     THEN /\ rp' = after_step
                          /\ rp_env' = env1
                          /\ UNCHANGED resetTable
                     ELSE LET new_seed == ReplayNewSeed(seed, step) IN
                          \E o \in ObsSpace :
                             LET env2 == EnvAfterReset(env1, new_seed, o) IN
                                 /\ ResetReturns(new_seed, o)
                                 /\ rp_env' = env2
                                 /\ rp' = [after_step EXCEPT
                                              !.obs = o,
                                              !.last_hash = obs_hash(o),
                                              !.hash_from = Len(env2.calls)]
    /\ UNCHANGED <<args, rec, rec_env, telemetry, run_json>>
    /\ UNCHANGED <<pol, rngTable, api,
                   runs, ex, ex_env>>

\* A report that prints the verdict flags without the compared values.
ReportLines_FlagsOnly(r, ok_reward, ok_hash) ==
    << [label |-> "steps",                 value |-> Len(r.data.actions)],
       [label |-> "deterministic_reward",  value |-> ok_reward],
       [label |-> "deterministic_hash",    value |-> ok_hash] >>

\* The lines printed at 69-75, in order.
ReportLines(r, ok_reward, ok_hash) ==
    << [label |-> "steps",                 value |-> Len(r.data.actions)],
       [label |-> "expected_total_reward", value |-> Fmt6(r.data.total_reward)],
       [label |-> "actual_total_reward",   value |-> Fmt6(r.total_reward)],
       [label |-> "expected_final_hash",   value |-> r.data.final_obs_hash],
       [label |-> "actual_final_hash",     value |-> r.last_hash],
       [label |-> "deterministic_reward",  value |-> ok_reward],
       [label |-> "deterministic_hash",    value |-> ok_hash] >>

\* Lines 59-75: the loop is over: env.close(), both checks, the report.
ReplayReport ==
    /\ rp.pc = "loop"
    /\ ~ReplayLoopHasNext(rp.data, rp.step)
    /\ LET ok_reward == OkReward(rp.total_reward, rp.data.total_reward)
           ok_hash   == OkHash(rp.last_hash, rp.data.final_obs_hash)
       IN  rp' = [rp EXCEPT !.pc = "reported", !.ok_reward = ok_reward,
                            !.ok_hash = ok_hash,
                            !.head = ReportHeader(rp.data),
                            !.out = ReportLines(rp, ok_reward, ok_hash)]
    /\ rp_env' = ReplayClose(rp_env)
    /\ UNCHANGED <<args, rec, rec_env, telemetry, run_json, resetTable, stepTable>>
    /\ UNCHANGED <<pol, rngTable, api,
                   runs, ex, ex_env>>

\* Lines 77-78: SystemExit(2) on a mismatch, a normal return otherwise.
ReplayExit ==
    /\ rp.pc = "reported"
    /\ rp' = [rp EXCEPT !.pc = "exited", !.exit = <<ExitCode(rp.ok_reward, rp.ok_hash)>>]
    /\ UNCHANGED <<args, rec, rec_env, telemetry, run_json, rp_env, resetTable, stepTable>>
    /\ UNCHANGED <<pol, rngTable, api,
                   runs, ex, ex_env>>

-----------------------------------------------------------------------------
(* replay/policies.py *)

\* dirs = ["UP", "RIGHT", "DOWN", "LEFT"]
Dirs == <<"UP", "RIGHT", "DOWN", "LEFT">>


Min(a, b) == IF a < b THEN a ELSE b

\* list.index(x): the 0-based position of the first occurrence of x.
Index(s, x) ==
    (CHOOSE i \in 1..Len(s) : s[i] = x /\ \A j \in 1..(i - 1) : s[j] # x) - 1

\* A fallback that always takes four actions.
DirActions_AlwaysFour(meanings, n) ==
    LET present == SelectSeq(Dirs, LAMBDA d : d \in Range(meanings))
        found   == [i \in 1..Len(present) |-> Index(meanings, present[i])]
    IN  IF found = <<>> THEN [i \in 1..4 |-> i - 1] ELSE found

\* Lines 54-60: the action indices of the directions present in the
\* vocabulary, in the order of Dirs; without any, the first min(4, n) actions.
DirActions(meanings, n) ==
    LET present == SelectSeq(Dirs, LAMBDA d : d \in Range(meanings))
        found   == [i \in 1..Len(present) |-> Index(meanings, present[i])]
    IN  IF found = <<>> THEN [i \in 1..Min(4, n) |-> i - 1] ELSE found

\* np.random.default_rng(seed): a generator is a deterministic function of
\* its seed and of the requests made of it so far.
RngNew(seed) == [seed |-> seed, reqs |-> <<>>]

NoRng == RngNew(NoSeed)

\* rng.random() is read in hundredths; the two values are one below and one
\* above the jitter probability 0.02.
RandomVals == {1, 50}

\* One request to a generator.  What it returns is arbitrary the first time
\* this (seed, requests) point is observed, and fixed in tbl from then on.
RngDraws(tbl, rng, req, values) ==
    LET reqs == Append(rng.reqs, req)
        key  == <<rng.seed, reqs>>
    IN  { [tbl |-> (key :> v) @@ tbl, rng |-> [seed |-> rng.seed, reqs |-> reqs], val |-> v] :
            v \in IF key \in DOMAIN tbl THEN {tbl[key]} ELSE values }

\* An instance as the dataclass constructor leaves it: reset sets the rest.
\* error is the exception the last call of the instance raised, "" if none.
NewPolicy(name, stuck_window, jitter_prob) ==
    [name |-> name, stuck_window |-> stuck_window, jitter_prob |-> jitter_prob,
     rng |-> NoRng, n |-> 0, meanings |-> <<>>, dir_actions |-> <<>>,
     cur_idx |-> 0, cur_action |-> 0, since_progress |-> 0, error |-> ""]

\* A reset that keeps the generator of an instance that already has one.
RandomReset_KeepsRng(p, seed, action_meanings, action_space_n) ==
    [p EXCEPT !.rng = IF p.rng = NoRng THEN RngNew(seed) ELSE p.rng,
              !.n = action_space_n, !.error = ""]

\* RandomPolicy.reset
RandomReset(p, seed, action_meanings, action_space_n) ==
    [p EXCEPT !.rng = RngNew(seed), !.n = action_space_n, !.error = ""]

\* No action: the call raised.
NoAction == 0 - 1

\* RandomPolicy.act: int(self.rng.integers(0, self.n)); integers raises
\* ValueError for an empty range.
RandomAct(tbl, p, reward, done) ==
    IF p.n <= 0
    THEN { [tbl |-> tbl, p |-> [p EXCEPT !.error = "ValueError"], action |-> NoAction] }
    ELSE { [tbl |-> d.tbl, p |-> [p EXCEPT !.rng = d.rng], action |-> d.val] :
             d \in RngDraws(tbl, p.rng, <<"integers", p.n>>, 0..(p.n - 1)) }

\* A reset that leaves the progress counter as it was.
StickyReset_KeepsCounter(p, seed, action_meanings, action_space_n) ==
    LET dir_actions == DirActions(action_meanings, action_space_n)
        p1 == [p EXCEPT !.rng = RngNew(seed), !.n = action_space_n,
                        !.meanings = action_meanings, !.dir_actions = dir_actions,
                        !.cur_idx = 0]
    IN  IF dir_actions = <<>>
        THEN [p1 EXCEPT !.error = "IndexError"]
        ELSE [p1 EXCEPT !.cur_action = dir_actions[1], !.error = ""]

\* StickyDirectionalPolicy.reset.  With no direction at all (no directional
\* name and action_space_n = 0) self.dir_actions[self.cur_idx] of line 63
\* raises IndexError, after lines 46-62 have assigned.
StickyReset(p, seed, action_meanings, action_space_n) ==
    LET dir_actions == DirActions(action_meanings, action_space_n)
        p1 == [p EXCEPT !.rng = RngNew(seed), !.n = action_space_n,
                        !.meanings = action_meanings, !.dir_actions = dir_actions,
                        !.cur_idx = 0]
    IN  IF dir_actions = <<>>
        THEN [p1 EXCEPT !.error = "IndexError"]
        ELSE [p1 EXCEPT !.cur_action = dir_actions[1], !.since_progress = 0,
                        !.error = ""]

\* A done branch that forgets to clear the progress counter.
StickyOnDone_KeepsCounter(p) == p

\* Lines 68-70: `if done: self._since_progress = 0` (cur_action is returned).
StickyOnDone(p) == [p EXCEPT !.since_progress = 0]

\* A progress test that also counts a reward of zero as progress.
SinceProgress_NonNegative(since_progress, reward) ==
    IF reward >= 0 THEN 0 ELSE since_progress + 1

\* Lines 73-76: the progress counter after this call's reward.
SinceProgress(since_progress, reward) ==
    IF reward > 0 THEN 0 ELSE since_progress + 1

IsStuck_Never(since_progress, stuck_window) == FALSE

\* A threshold that waits one call longer.
IsStuck_Strict(since_progress, stuck_window) == since_progress > stuck_window

\* if self._since_progress >= self.stuck_window
IsStuck(since_progress, stuck_window) == since_progress >= stuck_window

\* A jitter test that never succeeds.
JitterFires_Never(draw, jitter_prob) == FALSE

\* if self.rng.random() < self.jitter_prob
JitterFires(draw, jitter_prob) == draw < jitter_prob

StickyTurn_IndexOnly(p, idx) ==
    [p EXCEPT !.cur_idx = idx, !.since_progress = 0]

\* Lines 79-83 and 86-89: the instance with direction index idx selected and
\* the progress counter cleared.
StickyTurn(p, idx) ==
    [p EXCEPT !.cur_idx = idx, !.cur_action = p.dir_actions[idx + 1],
              !.since_progress = 0]

\* StickyDirectionalPolicy.act
StickyAct(tbl, p, reward, done) ==
    IF done
    THEN { [tbl |-> tbl, p |-> StickyOnDone(p), action |-> p.cur_action] }
    ELSE LET p1 == [p EXCEPT !.since_progress = SinceProgress(p.since_progress, reward)]
             n_dirs == Len(p.dir_actions)
         IN  UNION {
               IF JitterFires(d1.val, p.jitter_prob)
               THEN { LET p2 == StickyTurn([p1 EXCEPT !.rng = d2.rng], d2.val)
                      IN  [tbl |-> d2.tbl, p |-> p2, action |-> p2.cur_action] :
                        d2 \in RngDraws(d1.tbl, d1.rng, <<"integers", n_dirs>>,
                                        0..(n_dirs - 1)) }
               ELSE { LET p2 == [p1 EXCEPT !.rng = d1.rng]
                          p3 == IF IsStuck(p2.since_progress, p2.stuck_window)
                                THEN StickyTurn(p2, (p2.cur_idx + 1) % n_dirs)
                                ELSE p2
                      IN  [tbl |-> d1.tbl, p |-> p3, action |-> p3.cur_action] } :
               d1 \in RngDraws(tbl, p.rng, <<"random", 0>>, RandomVals) }

\* policy.reset(seed=..., action_meanings=..., action_space_n=...) of either class.
PolicyReset(p, a) ==
    IF p.name = "random"
    THEN RandomReset(p, a.seed, a.action_meanings, a.action_space_n)
    ELSE StickyReset(p, a.seed, a.action_meanings, a.action_space_n)

\* policy.act(step=..., obs=..., reward=..., done=...) of either class; step
\* and obs are read by neither.
PolicyAct(tbl, p, in) ==
    IF p.name = "random"
    THEN RandomAct(tbl, p, in.reward, in.done)
    ELSE StickyAct(tbl, p, in.reward, in.done)

PolicyActOn_ReadsObs(tbl, p, c) ==
    PolicyAct(tbl, p, [reward |-> IF c.obs = ObsB THEN OneReward ELSE c.reward,
                       done |-> c.done])

\* policy.act(step=c.step, obs=c.obs, reward=c.reward, done=c.done) with all
\* four arguments of the call: neither class reads step or obs.
PolicyActOn(tbl, p, c) ==
    PolicyAct(tbl, p, [reward |-> c.reward, done |-> c.done])

\* The largest stuck_window explored.
MaxWindow == 2

\* Calls of act after the common reset: enough for a rotation at every window.
MaxActs == MaxWindow + 1

\* jitter_prob in hundredths: 0.0 and the default 0.02.
JitterProbs == {0, 2}

\* RandomPolicy, and StickyDirectionalPolicy with every window (stuck_window
\* is an unchecked int field: 0 is accepted) and jitter probability.
PolicyConfigs ==
    {NewPolicy("random", 0, 0)} \cup
    { NewPolicy("sticky_dir", w, jp) : w \in 0..MaxWindow, jp \in JitterProbs }

\* Arguments of the reset before the common one: the four directions, and a
\* vocabulary longer than action_space_n.
PriorResetArgs ==
    { [seed |-> 0,  action_meanings |-> <<"UP", "RIGHT", "DOWN", "LEFT">>, action_space_n |-> 4],
      [seed |-> 41, action_meanings |-> <<"NOOP", "FIRE", "UP">>,          action_space_n |-> 2] }

\* Arguments of the common reset: those, some directions out of order, and
\* vocabularies without any direction of two, one, three, five and no actions.
PolicyResetArgs ==
    PriorResetArgs \cup
    { [seed |-> 41, action_meanings |-> <<"NOOP", "FIRE">>,                action_space_n |-> 2],
      [seed |-> 0,  action_meanings |-> <<"NOOP", "LEFT", "UP">>,          action_space_n |-> 3],
      [seed |-> 0,  action_meanings |-> <<"NOOP">>,                        action_space_n |-> 1],
      [seed |-> 41, action_meanings |-> <<"NOOP", "FIRE", "A">>,           action_space_n |-> 3],
      [seed |-> 0,  action_meanings |-> <<"NOOP", "FIRE", "A", "B", "C">>, action_space_n |-> 5],
      [seed |-> 41, action_meanings |-> <<>>,                              action_space_n |-> 0] }

\* The (reward, done) of an act call.
PolicyInputs == [reward : {0 - OneReward, 0, OneReward}, done : BOOLEAN]

\* No policy is driven.
PolOff == [phase |-> "off"]

\* Two instances of one class with the same fields, as make_policy builds
\* them; A may be used before both are reset with the same arguments.  After
\* the common reset: acts counts the act calls, calm says that none of them
\* had a positive reward or done, outsA and outsB are what they returned; pre,
\* last_in and last_out are A before its last act call, the input and the
\* return of that call.
PolStart(p) ==
    [phase |-> "fresh", A |-> p, B |-> p, prior |-> p, reset_args |-> <<>>,
     acts |-> 0, calm |-> TRUE, outsA |-> <<>>, outsB |-> <<>>,
     pre |-> p, last_in |-> [reward |-> 0, done |-> FALSE], last_out |-> 0,
     last_calls |-> <<>>]

\* A.reset(...) with any arguments, before the common reset.
PolicyPriorReset ==
    /\ pol.phase = "fresh"
    /\ \E a \in PriorResetArgs :
          pol' = [pol EXCEPT !.phase = "prior_reset", !.A = PolicyReset(pol.A, a)]
    /\ UNCHANGED <<args, rec, rec_env, telemetry, run_json, rp, rp_env,
                   resetTable, stepTable, rngTable, api,
                   runs, ex, ex_env>>

\* A.act(...) before the common reset.
PolicyPriorAct ==
    /\ pol.phase = "prior_reset"
    /\ \E in \in PolicyInputs :
       \E r \in PolicyAct(rngTable, pol.A, in) :
          /\ pol' = [pol EXCEPT !.phase = "prior_used", !.A = r.p,
                                !.pre = pol.A, !.last_in = in, !.last_out = r.action]
          /\ rngTable' = r.tbl
    /\ UNCHANGED <<args, rec, rec_env, telemetry, run_json, rp, rp_env,
                   resetTable, stepTable, api,
                   runs, ex, ex_env>>

\* A.reset(a) and B.reset(a) with the same arguments a.  Nothing is called
\* on an instance after one of its calls raised.
PolicyResetBoth ==
    /\ pol.phase \in {"fresh", "prior_reset", "prior_used"}
    /\ \E a \in PolicyResetArgs :
          LET A1 == PolicyReset(pol.A, a) IN
          pol' = [pol EXCEPT !.phase = IF A1.error = "" THEN "run" ELSE "raised",
                             !.prior = pol.A, !.reset_args = a,
                             !.A = A1,
                             !.B = PolicyReset(pol.B, a)]
    /\ UNCHANGED <<args, rec, rec_env, telemetry, run_json, rp, rp_env,
                   resetTable, stepTable, rngTable, api,
                   runs, ex, ex_env>>

\* A.act(in) and B.act(in) with the same input.
PolicyActBoth ==
    /\ pol.phase = "run"
    /\ pol.acts < MaxActs
    /\ \E in \in PolicyInputs :
       \E rA \in PolicyAct(rngTable, pol.A, in) :
       \E rB \in PolicyAct(rA.tbl, pol.B, in) :
          /\ pol' = [pol EXCEPT !.phase = IF rA.p.error = "" THEN "run" ELSE "raised",
                                !.A = rA.p, !.B = rB.p,
                                !.acts = pol.acts + 1,
                                !.calm = pol.calm /\ in.reward <= 0 /\ ~in.done,
                                !.outsA = Append(pol.outsA, rA.action),
                                !.outsB = Append(pol.outsB, rB.action),
                                !.pre = pol.A, !.last_in = in,
                                !.last_out = rA.action]
          /\ rngTable' = rB.tbl
    /\ UNCHANGED <<args, rec, rec_env, telemetry, run_json, rp, rp_env,
                   resetTable, stepTable, api,
                   runs, ex, ex_env>>

\* The act calls given to B next to A's call c: another step index and
\* another observation; for RandomPolicy any reward and done flag as well.
OtherCalls(name, c) ==
    { [step |-> c.step + 1, obs |-> ObsB, reward |-> in.reward, done |-> in.done] :
        in \in IF name = "random" THEN PolicyInputs
               ELSE {[reward |-> c.reward, done |-> c.done]} }

\* A.act(cA) and B.act(cB), where cB differs from cA in step and obs (and for
\* RandomPolicy possibly in reward and done).
PolicyActApart ==
    /\ pol.phase = "run"
    /\ pol.acts < MaxActs
    /\ \E in \in PolicyInputs :
       LET cA == [step |-> pol.acts, obs |-> ObsA, reward |-> in.reward, done |-> in.done] IN
       \E cB \in OtherCalls(pol.A.name, cA) :
       \E rA \in PolicyActOn(rngTable, pol.A, cA) :
       \E rB \in PolicyActOn(rA.tbl, pol.B, cB) :
          /\ pol' = [pol EXCEPT !.phase = IF rA.p.error = "" THEN "run" ELSE "raised",
                                !.A = rA.p, !.B = rB.p,
                                !.acts = pol.acts + 1,
                                !.calm = pol.calm /\ in.reward <= 0 /\ ~in.done,
                                !.outsA = Append(pol.outsA, rA.action),
                                !.outsB = Append(pol.outsB, rB.action),
                                !.pre = pol.A, !.last_in = in,
                                !.last_out = rA.action,
                                !.last_calls = <<cA, cB>>]
          /\ rngTable' = rB.tbl
    /\ UNCHANGED <<args, rec, rec_env, telemetry, run_json, rp, rp_env,
                   resetTable, stepTable, api,
                   runs, ex, ex_env>>

-----------------------------------------------------------------------------
(* Specifications *)

\* Record a run, then replay the run.json it wrote.
Init ==
    /\ args \in [seed : Seeds, steps : StepBudgets, single_episode : BOOLEAN,
                 env_key : {EnvKeyDefault}, policy : {PolicyDefault},
                 frameskip : {FrameskipDefault}, sticky : {StickyDefault},
                 list_envs : {FALSE}]
    /\ rec = RecStart
    /\ rec_env = EnvNew
    /\ telemetry = <<>>
    /\ run_json = NoFile
    /\ rp = ReplayStart
    /\ rp_env = EnvNew
    /\ resetTable = EmptyTable
    /\ stepTable = EmptyTable
    /\ pol = PolOff
    /\ rngTable = EmptyTable
    /\ api = NoCall
    /\ runs = NoRuns
    /\ ex = ExportOff
    /\ ex_env = EnvNew

Next ==
    \/ RecordBegin
    \/ RecordStep
    \/ RecordFinish
    \/ ReplayParseArgs
    \/ ReplayBegin
    \/ ReplayStep
    \/ ReplayReport
    \/ ReplayExit

Spec == Init /\ [][Next]_vars

\* Replay alone, given any run.json: the recorded values need not be what the
\* environment yields.
SeqsUpTo(S, n) == UNION { [1..k -> S] : k \in 0..n }

ExpectedRewards ==
    {OneReward - Tolerance, OneReward, OneReward + Tolerance - 1, OneReward + Tolerance}

ExpectedHashes == {obs_hash(ObsA), BogusHash}

RecordArgs(seed, steps, single_episode) ==
    [seed |-> seed, steps |-> steps, single_episode |-> single_episode,
     env_key |-> EnvKeyDefault, policy |-> PolicyDefault,
     frameskip |-> FrameskipDefault, sticky |-> StickyDefault, list_envs |-> FALSE]

RunJsonInputs ==
    { RunJson(RecordArgs(s, Len(acts), FALSE), acts, tr, h) :
        s \in Seeds, acts \in SeqsUpTo(ActionSpace, MaxSteps),
        tr \in ExpectedRewards, h \in ExpectedHashes }

InitReplay ==
    /\ args = [seed |-> 0, steps |-> 0, single_episode |-> FALSE]
    /\ rec = [RecStart EXCEPT !.pc = "off"]
    /\ rec_env = EnvNew
    /\ telemetry = <<>>
    /\ run_json \in RunJsonInputs
    /\ rp = ReplayStart
    /\ rp_env = EnvNew
    /\ resetTable = EmptyTable
    /\ stepTable = EmptyTable
    /\ pol = PolOff
    /\ rngTable = EmptyTable
    /\ api = NoCall
    /\ runs = NoRuns
    /\ ex = ExportOff
    /\ ex_env = EnvNew

NextReplay ==
    \/ ReplayParseArgs
    \/ ReplayBegin
    \/ ReplayStep
    \/ ReplayReport
    \/ ReplayExit

SpecReplay == InitReplay /\ [][NextReplay]_vars

-----------------------------------------------------------------------------
(* replay/export_video.py *)

\* The attributes of an ALEEnv object: the dataclass fields, _env, the three
\* methods and the two properties.  There is no render_rgb.
ALEEnvAttrs ==
    {"env_id", "obs_type", "render_mode", "frameskip", "repeat_action_probability",
     "_env", "reset", "step", "close", "action_space_n", "action_meanings"}

\* The attributes of the Mock that the tests bind to the name ALEEnv: a Mock
\* answers every attribute, render_rgb among them.
MockEnvAttrs == ALEEnvAttrs \cup {"render_rgb"}

ExportEnvClasses == {ALEEnvAttrs, MockEnvAttrs}

\* What render_rgb() of the Mock returns: None, or a frame.
NoFrame == 0
AFrame == 1
RenderResults == {NoFrame, AFrame}

\* The handle after render_rgb() returned f.
EnvAfterRender(e, f) ==
    [seed |-> e.seed, hist |-> e.hist,
     calls |-> Append(e.calls, [op |-> "render", arg |-> 0, ret |-> f])]

\* --max-frames (default None, <<>> here) and --capture-every (default 1):
\* type=int, not validated.
ExportMaxFrames == {<<>>, <<0>>, <<1>>, <<2>>}
CaptureEveryDefault == 1
ExportCaptureEvery == {0, CaptureEveryDefault, 2}

\* Lines 45-55 subscript data["spec"], data["actions"], spec["env_id"] and
\* spec["seed"], in this order.
ExportRequiredKeys == <<"spec", "actions", "env_id", "seed">>

ExportFirstMissing(d) ==
    LET miss == SelectSeq(ExportRequiredKeys, LAMBDA k : k \in d.missing)
    IN  IF miss = <<>> THEN "" ELSE Head(miss)

\* Lines 44-55: as in replay.py, the constructor is called after
\* spec["env_id"] is read and before spec["seed"] is.
ExportLoad(d) ==
    LET k == ExportFirstMissing(d)
        ctor == << ALEEnvArgs(d.spec.env_id,
                              SpecGet(d, "frameskip", ReplayFrameskipDefault),
                              SpecGet(d, "repeat_action_probability", ReplayRepeatDefault)) >>
    IN  IF k = ""
        THEN [error |-> NoError, ctor |-> ctor]
        ELSE [error |-> KeyError(k), ctor |-> IF k = "seed" THEN ctor ELSE <<>>]

ZeroDivisionError ==
    [type |-> "ZeroDivisionError", text |-> "integer modulo by zero", name |-> "",
     valid |-> <<>>]

AttributeError(attr) ==
    [type |-> "AttributeError", text |-> "", name |-> attr, valid |-> <<>>]

NoFramesError ==
    [type |-> "RuntimeError", text |-> "No frames captured", name |-> "", valid |-> <<>>]

\* Lines 60-65, maybe_add_frame(step_idx) on handle e of a class with the
\* attributes attrs, render_rgb answering f if it is called: the handle and
\* the frame list afterwards (a frame is represented by the step index it was
\* captured at), or the error raised.
MaybeAddFrame(e, attrs, frames, step_idx, capture_every, f) ==
    IF capture_every = 0
    THEN [env |-> e, frames |-> frames, error |-> ZeroDivisionError]
    ELSE IF step_idx % capture_every # 0
    THEN [env |-> e, frames |-> frames, error |-> NoError]
    ELSE IF "render_rgb" \notin attrs
    THEN [env |-> e, frames |-> frames, error |-> AttributeError("render_rgb")]
    ELSE [env |-> EnvAfterRender(e, f),
          frames |-> IF f = NoFrame THEN frames ELSE Append(frames, step_idx),
          error |-> NoError]

\* Line 74: done = sr.terminated or sr.truncated
ExportDone(sr) == sr.terminated \/ sr.truncated

\* Line 77: new_seed = seed + step + 1
ExportNewSeed(seed, step) == seed + step + 1

\* Line 81: args.max_frames is not None and len(frames) >= args.max_frames
ExportCapReached(max_frames, frames) ==
    max_frames # <<>> /\ Len(frames) >= max_frames[1]

\* main's locals before line 39.
ExportStart ==
    [pc |-> "argv", data |-> NoFile, attrs |-> {}, max_frames |-> <<>>,
     capture_every |-> CaptureEveryDefault, frames |-> <<>>, step |-> 0,
     env_ctor |-> <<>>, err |-> NoError, exit |-> <<>>, video |-> <<>>]

\* parse_args: --run is required; --max-frames and --capture-every are ints.
ExportParseArgs ==
    /\ ex.pc = "argv"
    /\ \E has_run \in BOOLEAN, mf \in ExportMaxFrames, ce \in ExportCaptureEvery :
          ex' = [ex EXCEPT !.pc = IF has_run THEN "parsed" ELSE "usage_error",
                           !.exit = ParseExit(has_run),
                           !.max_frames = mf, !.capture_every = ce]
    /\ UNCHANGED <<args, rec, rec_env, telemetry, run_json, rp, rp_env, resetTable,
                   stepTable>>
    /\ UNCHANGED <<pol, rngTable, api, runs, ex_env>>

\* Lines 40-68: load run.json, construct the environment, the first reset,
\* maybe_add_frame(0).
ExportBegin ==
    /\ ex.pc = "parsed"
    /\ run_json.exists
    /\ LET l    == ExportLoad(run_json)
           seed == run_json.spec.seed
       IN  IF l.error # NoError
           THEN /\ ex' = [ex EXCEPT !.pc = "crashed", !.err = l.error,
                                    !.env_ctor = l.ctor, !.exit = <<1>>]
                /\ UNCHANGED <<ex_env, resetTable>>
           ELSE \E attrs \in ExportEnvClasses, o \in ObsSpace, f \in RenderResults :
                  LET env1 == EnvAfterReset(EnvNew, seed, o)
                      m    == MaybeAddFrame(env1, attrs, <<>>, 0, ex.capture_every, f)
                  IN  /\ ResetReturns(seed, o)
                      /\ ex_env' = m.env
                      /\ ex' = [ex EXCEPT
                                  !.pc = IF m.error = NoError THEN "loop" ELSE "crashed",
                                  !.data = run_json, !.attrs = attrs,
                                  !.env_ctor = l.ctor, !.frames = m.frames,
                                  !.err = m.error,
                                  !.exit = IF m.error = NoError THEN <<>> ELSE <<1>>]
    /\ UNCHANGED <<args, rec, rec_env, telemetry, run_json, rp, rp_env, stepTable>>
    /\ UNCHANGED <<pol, rngTable, api, runs>>

\* Lines 70-82: one iteration of `for step, action in enumerate(actions)`.
ExportStep ==
    /\ ex.pc = "loop"
    /\ ex.step < Len(ex.data.actions)
    /\ LET step   == ex.step
           action == ex.data.actions[step + 1]
           seed   == ex.data.spec.seed
       IN  \E sr \in StepResults, f1 \in RenderResults :
              LET env1 == EnvAfterStep(ex_env, action, sr)
                  m1   == MaybeAddFrame(env1, ex.attrs, ex.frames, step + 1,
                                        ex.capture_every, f1)
              IN  /\ StepReturns(ex_env, action, sr)
                  /\ IF m1.error # NoError
                     THEN /\ ex' = [ex EXCEPT !.pc = "crashed", !.err = m1.error,
                                              !.exit = <<1>>]
                          /\ ex_env' = m1.env
                          /\ UNCHANGED resetTable
                     ELSE IF ~ExportDone(sr)
                     THEN /\ ex' = [ex EXCEPT
                                      !.frames = m1.frames, !.step = step + 1,
                                      !.pc = IF ExportCapReached(ex.max_frames, m1.frames)
                                             THEN "after_loop" ELSE "loop"]
                          /\ ex_env' = m1.env
                          /\ UNCHANGED resetTable
                     ELSE LET new_seed == ExportNewSeed(seed, step) IN
                          \E o \in ObsSpace, f2 \in RenderResults :
                             LET env2 == EnvAfterReset(m1.env, new_seed, o)
                                 m2   == MaybeAddFrame(env2, ex.attrs, m1.frames, step + 2,
                                                       ex.capture_every, f2)
                             IN  /\ ResetReturns(new_seed, o)
                                 /\ ex_env' = m2.env
                                 /\ ex' = [ex EXCEPT
                                      !.frames = m2.frames, !.step = step + 1,
                                      !.err = m2.error,
                                      !.exit = IF m2.error = NoError THEN <<>> ELSE <<1>>,
                                      !.pc = IF m2.error # NoError THEN "crashed"
                                             ELSE IF ExportCapReached(ex.max_frames, m2.frames)
                                             THEN "after_loop" ELSE "loop"]
    /\ UNCHANGED <<args, rec, rec_env, telemetry, run_json, rp, rp_env>>
    /\ UNCHANGED <<pol, rngTable, api, runs>>

\* Line 84: the loop is over (no action left, or break): env.close().
ExportClose ==
    /\ \/ ex.pc = "after_loop"
       \/ ex.pc = "loop" /\ ~(ex.step < Len(ex.data.actions))
    /\ ex' = [ex EXCEPT !.pc = "closed"]
    /\ ex_env' = EnvAfterClose(ex_env)
    /\ UNCHANGED <<args, rec, rec_env, telemetry, run_json, rp, rp_env, resetTable,
                   stepTable>>
    /\ UNCHANGED <<pol, rngTable, api, runs>>

\* Lines 86-90: RuntimeError without frames, iio.imwrite(out_path, frames)
\* otherwise.
ExportWrite ==
    /\ ex.pc = "closed"
    /\ ex' = IF ex.frames = <<>>
             THEN [ex EXCEPT !.pc = "crashed", !.err = NoFramesError, !.exit = <<1>>]
             ELSE [ex EXCEPT !.pc = "done", !.video = <<ex.frames>>, !.exit = <<OkExit>>]
    /\ UNCHANGED <<args, rec, rec_env, telemetry, run_json, rp, rp_env, resetTable,
                   stepTable>>
    /\ UNCHANGED <<pol, rngTable, api, runs, ex_env>>

\* An artifact is replayed and exported, by two processes whose environments
\* answer alike.
ExportActions == {<<>>, <<1>>, <<0, 1>>}

ExportArtifacts ==
    { [RunJson(RecordArgs(41, Len(acts), FALSE), acts, OneReward, obs_hash(ObsA))
          EXCEPT !.missing = M] :
        acts \in ExportActions, M \in {{}, {"seed"}} }

InitExport ==
    /\ args = [seed |-> 0, steps |-> 0, single_episode |-> FALSE]
    /\ rec = [RecStart EXCEPT !.pc = "off"]
    /\ rec_env = EnvNew
    /\ telemetry = <<>>
    /\ run_json \in ExportArtifacts
    /\ rp = ReplayStart
    /\ rp_env = EnvNew
    /\ resetTable = EmptyTable
    /\ stepTable = EmptyTable
    /\ pol = PolOff
    /\ rngTable = EmptyTable
    /\ api = NoCall
    /\ runs = NoRuns
    /\ ex = ExportStart
    /\ ex_env = EnvNew

NextExport ==
    \/ ReplayParseArgs
    \/ ReplayBegin
    \/ ReplayStep
    \/ ReplayReport
    \/ ReplayExit
    \/ ExportParseArgs
    \/ ExportBegin
    \/ ExportStep
    \/ ExportClose
    \/ ExportWrite

SpecExport == InitExport /\ [][NextExport]_vars

\* The recorded actions of the artifacts replayed below.
ArtifactActions == {<<>>, <<1>>, <<0, 1>>}

\* Two replays, one after the other, of artifacts that differ only in what
\* replay.py does not read or only prints: the artifacts of the first replay.
VerdictArtifacts ==
    { [RunJson(RecordArgs(41, Len(acts), FALSE), acts, tr, h) EXCEPT !.missing = M] :
        acts \in ArtifactActions, tr \in {0, OneReward}, h \in ExpectedHashes,
        M \in {{}, {"seed"}, {"frameskip"}} }

\* The keys of "spec" that lines 24-62 never read (lines 64-68 print three of them).
UnreadKeys == {"env_key", "obs_type", "policy", "steps", "single_episode"}

\* The artifacts that agree with d on env_id, frameskip,
\* repeat_action_probability, seed, actions, total_reward and final_obs_hash
\* (run_id and created_unix_s, which replay.py never reads, are not modelled).
UnreadVariants(d) ==
    { [d EXCEPT !.spec.env_key = k, !.spec.obs_type = EnvSpecs[k].obs_type,
                !.spec.policy = p, !.spec.steps = n, !.spec.single_episode = se,
                !.missing = (d.missing \ UnreadKeys) \cup M] :
        k \in DOMAIN EnvSpecs, p \in DOMAIN RegisteredPolicies, n \in {0, Len(d.actions)},
        se \in BOOLEAN, M \in {{}, UnreadKeys} }

\* What a replay process that has ended did.
ReplayOutcome ==
    [fn |-> "replay", data |-> run_json, ctor |-> rp.env_ctor, calls |-> rp_env.calls,
     exit |-> rp.exit, err |-> rp.err]

\* Lines 20-24: a second replay process is started, with the run.json of another
\* run; its environment answers as the first one's did.
ReplayOther ==
    /\ rp.pc \in {"exited", "crashed"}
    /\ api = NoCall
    /\ run_json' \in UnreadVariants(run_json)
    /\ api' = ReplayOutcome
    /\ rp' = ReplayStart
    /\ rp_env' = EnvNew
    /\ UNCHANGED <<args, rec, rec_env, telemetry, resetTable, stepTable>>
    /\ UNCHANGED <<pol, rngTable, runs, ex, ex_env>>

InitVerdict ==
    /\ args = [seed |-> 0, steps |-> 0, single_episode |-> FALSE]
    /\ rec = [RecStart EXCEPT !.pc = "off"]
    /\ rec_env = EnvNew
    /\ telemetry = <<>>
    /\ run_json \in VerdictArtifacts
    /\ rp = ReplayStart
    /\ rp_env = EnvNew
    /\ resetTable = EmptyTable
    /\ stepTable = EmptyTable
    /\ pol = PolOff
    /\ rngTable = EmptyTable
    /\ api = NoCall
    /\ runs = NoRuns
    /\ ex = ExportOff
    /\ ex_env = EnvNew

NextVerdict ==
    \/ ReplayParseArgs
    \/ ReplayBegin
    \/ ReplayStep
    \/ ReplayReport
    \/ ReplayExit
    \/ ReplayOther

SpecVerdict == InitVerdict /\ [][NextVerdict]_vars

\* Documents that lack keys: complete artifacts with the default and with
\* other frameskip and repeat_action_probability values (the latter in
\* hundredths), less any one or two keys, or every optional key.
CompleteArtifacts ==
    { RunJson([RecordArgs(41, Len(acts), FALSE) EXCEPT !.frameskip = fs, !.sticky = rap],
              acts, OneReward, obs_hash(ObsA)) :
        acts \in ArtifactActions, fs \in {1, ReplayFrameskipDefault},
        rap \in {ReplayRepeatDefault, 25} }

MissingSets ==
    LET keys == Range(RequiredKeys) \cup OptionalKeys
    IN  { M \in SUBSET keys : Cardinality(M) <= 2 } \cup {OptionalKeys}

InitArtifact ==
    /\ args = [seed |-> 0, steps |-> 0, single_episode |-> FALSE]
    /\ rec = [RecStart EXCEPT !.pc = "off"]
    /\ rec_env = EnvNew
    /\ telemetry = <<>>
    /\ run_json \in { [d EXCEPT !.missing = M] : d \in CompleteArtifacts, M \in MissingSets }
    /\ rp = ReplayStart
    /\ rp_env = EnvNew
    /\ resetTable = EmptyTable
    /\ stepTable = EmptyTable
    /\ pol = PolOff
    /\ rngTable = EmptyTable
    /\ api = NoCall
    /\ runs = NoRuns
    /\ ex = ExportOff
    /\ ex_env = EnvNew

NextArtifact ==
    \/ ReplayParseArgs
    \/ ReplayBegin
    \/ ReplayStep
    \/ ReplayReport
    \/ ReplayExit

SpecArtifact == InitArtifact /\ [][NextArtifact]_vars

\* Arrays given to obs_hash: one and two dimensions, both buffer orders.
HashShapes == {<<2>>, <<1, 2>>, <<2, 1>>, <<2, 2>>}

HashInputs ==
    UNION { { [shape |-> s, bytes |-> b, order |-> ord] :
                b \in [1..(IF Len(s) = 1 THEN s[1] ELSE s[1] * s[2]) -> {0, 1}],
                ord \in {"C", "F"} } : s \in HashShapes }

\* obs_hash of two arrays, and of the first one again.
ObsHashCall ==
    /\ api = NoCall
    /\ runs = NoRuns
    /\ ex = ExportOff
    /\ ex_env = EnvNew
    /\ \E o1 \in HashInputs, o2 \in HashInputs :
         api' = [fn |-> "obs_hash", args |-> <<o1, o2>>,
                 payloads |-> <<ObsPayload(o1), ObsPayload(o2)>>,
                 rets |-> <<obs_hash(o1), obs_hash(o2), obs_hash(o1)>>]
    /\ UNCHANGED <<args, rec, rec_env, telemetry, run_json, rp, rp_env,
                   resetTable, stepTable, pol, rngTable, runs, ex, ex_env>>

InitHash ==
    /\ args = [seed |-> 0, steps |-> 0, single_episode |-> FALSE]
    /\ rec = [RecStart EXCEPT !.pc = "off"]
    /\ rec_env = EnvNew
    /\ telemetry = <<>>
    /\ run_json = NoFile
    /\ rp = ReplayStart
    /\ rp_env = EnvNew
    /\ resetTable = EmptyTable
    /\ stepTable = EmptyTable
    /\ pol = PolOff
    /\ rngTable = EmptyTable
    /\ api = NoCall
    /\ runs = NoRuns
    /\ ex = ExportOff
    /\ ex_env = EnvNew

NextHash == ObsHashCall

SpecHash == InitHash /\ [][NextHash]_vars

\* The defaults of StickyDirectionalPolicy's fields; jitter_prob in hundredths.
StuckWindowDefault == 30
JitterProbDefault == 2

\* _POLICIES after import: the objects are heap cells, so that two names for
\* one object can be told from two objects; cell 1 is RandomPolicy() and cell
\* 2 is StickyDirectionalPolicy().
PolicyHeap ==
    << NewPolicy("random", 0, 0),
       NewPolicy("sticky_dir", StuckWindowDefault, JitterProbDefault) >>

MakePolicy_ReturnsPrototype(heap, registry, name) ==
    IF name \notin DOMAIN registry
    THEN [heap |-> heap, ret |-> 0, error |-> UnknownPolicy(registry, name)]
    ELSE [heap |-> heap, ret |-> registry[name], error |-> NoError]

\* make_policy(name): ValueError "Unknown policy '<name>'. Valid: <names>" for
\* a name that is not registered; otherwise type(p)(**p.__dict__), a new object
\* built from the prototype's attributes.  A prototype that was reset carries
\* attributes the constructor does not take: TypeError.
MakePolicy(heap, registry, name) ==
    IF name \notin DOMAIN registry
    THEN [heap |-> heap, ret |-> 0, error |-> UnknownPolicy(registry, name)]
    ELSE LET p == heap[registry[name]]
             fresh == NewPolicy(p.name, p.stuck_window, p.jitter_prob)
         IN  IF p # fresh
             THEN [heap |-> heap, ret |-> 0,
                   error |-> [type |-> "TypeError", text |-> "unexpected keyword argument",
                              name |-> name, valid |-> <<>>]]
             ELSE [heap |-> Append(heap, fresh), ret |-> Len(heap) + 1,
                   error |-> NoError]

\* Calls of make_policy explored, and calls of reset and act on its results.
MaxMakes == MaxWindow
MaxRegCalls == MaxActs + 1

\* Names asked of make_policy: the registered ones and one that is not.
RegistryNames == {"random", "sticky_dir", "dqn"}

\* Arguments of reset and act on the results of make_policy.
RegistryResetArgs == PriorResetArgs
RegistryInputs == [reward : {0}, done : BOOLEAN]

\* The registry, the log of make_policy calls, and for every instance returned
\* the instance's heap cell, what it returned from act, and the same for a
\* private instance of the class given the same calls (iso, iso_outs).
RegistryStart ==
    [phase |-> "registry", heap |-> PolicyHeap, registry |-> RegisteredPolicies,
     made |-> <<>>, handles |-> <<>>, calls |-> 0]

\* A call of make_policy.
RegistryMake ==
    /\ pol.phase = "registry"
    /\ Len(pol.made) < MaxMakes
    /\ \E name \in RegistryNames :
         LET r == MakePolicy(pol.heap, pol.registry, name)
         IN  pol' = [pol EXCEPT
                 !.heap = r.heap,
                 !.made = Append(@, [name |-> name, ret |-> r.ret, error |-> r.error]),
                 !.handles = IF r.ret = 0 THEN @
                             ELSE Append(@, [id |-> r.ret, name |-> name,
                                             iso |-> PolicyHeap[RegisteredPolicies[name]],
                                             outs |-> <<>>, iso_outs |-> <<>>,
                                             was_reset |-> FALSE])]
    /\ UNCHANGED <<args, rec, rec_env, telemetry, run_json, rp, rp_env,
                   resetTable, stepTable, rngTable, api,
                   runs, ex, ex_env>>

\* reset on one of the instances make_policy returned.
RegistryReset ==
    /\ pol.phase = "registry"
    /\ pol.calls < MaxRegCalls
    /\ \E k \in 1..Len(pol.handles), a \in RegistryResetArgs :
         LET h == pol.handles[k]
         IN  pol' = [pol EXCEPT
                 !.heap[h.id] = PolicyReset(@, a),
                 !.handles[k].iso = PolicyReset(@, a),
                 !.handles[k].was_reset = TRUE,
                 !.calls = @ + 1]
    /\ UNCHANGED <<args, rec, rec_env, telemetry, run_json, rp, rp_env,
                   resetTable, stepTable, rngTable, api,
                   runs, ex, ex_env>>

\* act on one of the instances make_policy returned, after its reset.
RegistryAct ==
    /\ pol.phase = "registry"
    /\ pol.calls < MaxRegCalls
    /\ \E k \in 1..Len(pol.handles), in \in RegistryInputs :
         LET h == pol.handles[k]
         IN  /\ h.was_reset
             /\ \E r \in PolicyAct(rngTable, pol.heap[h.id], in) :
                  \E s \in PolicyAct(r.tbl, h.iso, in) :
                    /\ pol' = [pol EXCEPT
                           !.heap[h.id] = r.p,
                           !.handles[k].iso = s.p,
                           !.handles[k].outs = Append(@, r.action),
                           !.handles[k].iso_outs = Append(@, s.action),
                           !.calls = @ + 1]
                    /\ rngTable' = s.tbl
    /\ UNCHANGED <<args, rec, rec_env, telemetry, run_json, rp, rp_env,
                   resetTable, stepTable, api,
                   runs, ex, ex_env>>

\* The policies alone: an instance that was used and a fresh one, reset with
\* the same arguments and given the same act calls.
InitPolicy ==
    /\ args = [seed |-> 0, steps |-> 0, single_episode |-> FALSE]
    /\ rec = [RecStart EXCEPT !.pc = "off"]
    /\ rec_env = EnvNew
    /\ telemetry = <<>>
    /\ run_json = NoFile
    /\ rp = ReplayStart
    /\ rp_env = EnvNew
    /\ resetTable = EmptyTable
    /\ stepTable = EmptyTable
    /\ pol \in { PolStart(p) : p \in PolicyConfigs }
    /\ rngTable = EmptyTable
    /\ api = NoCall
    /\ runs = NoRuns
    /\ ex = ExportOff
    /\ ex_env = EnvNew

NextPolicy ==
    \/ PolicyPriorReset
    \/ PolicyPriorAct
    \/ PolicyResetBoth
    \/ PolicyActBoth

SpecPolicy == InitPolicy /\ [][NextPolicy]_vars

\* Two instances reset with the same arguments and given act calls that
\* differ in the arguments a policy must not depend on.
NextPolicyApart ==
    \/ PolicyResetBoth
    \/ PolicyActApart

SpecPolicyApart == InitPolicy /\ [][NextPolicyApart]_vars

\* The policy registry alone: make_policy, and reset and act on its results in
\* any interleaving.
InitRegistry ==
    /\ args = [seed |-> 0, steps |-> 0, single_episode |-> FALSE]
    /\ rec = [RecStart EXCEPT !.pc = "off"]
    /\ rec_env = EnvNew
    /\ telemetry = <<>>
    /\ run_json = NoFile
    /\ rp = ReplayStart
    /\ rp_env = EnvNew
    /\ resetTable = EmptyTable
    /\ stepTable = EmptyTable
    /\ pol = RegistryStart
    /\ rngTable = EmptyTable
    /\ api = NoCall
    /\ runs = NoRuns
    /\ ex = ExportOff
    /\ ex_env = EnvNew

NextRegistry ==
    \/ RegistryMake
    \/ RegistryReset
    \/ RegistryAct

SpecRegistry == InitRegistry /\ [][NextRegistry]_vars

-----------------------------------------------------------------------------
(* record.py processes that share one runs directory.  A process is followed
   through what it does to the directory: lines 87-90 (the run identifier),
   line 91 (_make_run_dir), lines 93-121 (the environment), lines 127-197
   (telemetry.csv is opened for writing and filled), lines 199-224 (run.json
   is written). *)

\* Run identifiers: time.strftime plus eight hex digits of a uuid4; two
\* processes may draw the same one.
RunIds == {"r0", "r1", "r2"}

\* The processes followed.
RunProcs == {1, 2}

MakeRunDir_ExistOk(dirs, d) == [dirs |-> dirs \cup {d}, error |-> ""]

\* _make_run_dir: d.mkdir(parents=True, exist_ok=False), one mkdir system
\* call on a runs directory that exists.
MakeRunDir(dirs, d) ==
    IF d \in dirs
    THEN [dirs |-> dirs, error |-> "FileExistsError"]
    ELSE [dirs |-> dirs \cup {d}, error |-> ""]

\* A process before line 87.
RunProcStart == [pc |-> "start", run_id |-> "", env_made |-> FALSE, error |-> ""]

\* The runs directory when the processes start: empty, or holding the
\* finished run "r0" of an earlier process 0.
RunsStart ==
    { [dirs |-> {}, files |-> {}, procs |-> [p \in RunProcs |-> RunProcStart]],
      [dirs |-> {"r0"},
       files |-> { [dir |-> "r0", name |-> "telemetry.csv", writer |-> 0],
                   [dir |-> "r0", name |-> "run.json", writer |-> 0] },
       procs |-> [p \in RunProcs |-> RunProcStart]] }

\* Lines 87-90.
RunChooseId ==
    /\ \E p \in DOMAIN runs.procs, id \in RunIds :
         /\ runs.procs[p].pc = "start"
         /\ runs' = [runs EXCEPT !.procs[p].pc = "have_id", !.procs[p].run_id = id]
    /\ UNCHANGED <<args, rec, rec_env, telemetry, run_json, rp, rp_env,
                   resetTable, stepTable, pol, rngTable, api, ex, ex_env>>

\* Line 91.
RunMakeDir ==
    /\ \E p \in DOMAIN runs.procs :
         LET m == MakeRunDir(runs.dirs, runs.procs[p].run_id) IN
         /\ runs.procs[p].pc = "have_id"
         /\ runs' = [runs EXCEPT !.dirs = m.dirs,
                                 !.procs[p].pc = IF m.error = "" THEN "dir" ELSE "crashed",
                                 !.procs[p].error = m.error]
    /\ UNCHANGED <<args, rec, rec_env, telemetry, run_json, rp, rp_env,
                   resetTable, stepTable, pol, rngTable, api, ex, ex_env>>

\* An environment call of the process raises or returns; the exception ends
\* the process.
RunEnvOutcomes == {"", "EnvFault"}

\* Lines 93-121: make_env, and env.reset(seed=args.seed), which may raise.
RunMakeEnv ==
    /\ \E p \in DOMAIN runs.procs, fault \in RunEnvOutcomes :
         /\ runs.procs[p].pc = "dir"
         /\ runs' = [runs EXCEPT !.procs[p].pc = IF fault = "" THEN "env" ELSE "crashed",
                                 !.procs[p].env_made = TRUE,
                                 !.procs[p].error = fault]
    /\ UNCHANGED <<args, rec, rec_env, telemetry, run_json, rp, rp_env,
                   resetTable, stepTable, pol, rngTable, api, ex, ex_env>>

\* Lines 127-197: telemetry_path.open("w") and the rows; env.step or the
\* env.reset after a done step may raise.
RunWriteTelemetry ==
    /\ \E p \in DOMAIN runs.procs, fault \in RunEnvOutcomes :
         /\ runs.procs[p].pc = "env"
         /\ runs' = [runs EXCEPT
                !.procs[p].pc = IF fault = "" THEN "loop" ELSE "crashed",
                !.procs[p].error = fault,
                !.files = @ \cup { [dir |-> runs.procs[p].run_id,
                                    name |-> "telemetry.csv", writer |-> p] }]
    /\ UNCHANGED <<args, rec, rec_env, telemetry, run_json, rp, rp_env,
                   resetTable, stepTable, pol, rngTable, api, ex, ex_env>>

\* Lines 199-224: (run_dir / "run.json").open("w"), json.dump, env.close(),
\* which may raise.
RunWriteJson ==
    /\ \E p \in DOMAIN runs.procs, fault \in RunEnvOutcomes :
         /\ runs.procs[p].pc = "loop"
         /\ runs' = [runs EXCEPT
                !.procs[p].pc = IF fault = "" THEN "done" ELSE "crashed",
                !.procs[p].error = fault,
                !.files = @ \cup { [dir |-> runs.procs[p].run_id,
                                    name |-> "run.json", writer |-> p] }]
    /\ UNCHANGED <<args, rec, rec_env, telemetry, run_json, rp, rp_env,
                   resetTable, stepTable, pol, rngTable, api, ex, ex_env>>

InitRunDir ==
    /\ args = [seed |-> 0, steps |-> 0, single_episode |-> FALSE]
    /\ rec = [RecStart EXCEPT !.pc = "off"]
    /\ rec_env = EnvNew
    /\ telemetry = <<>>
    /\ run_json = NoFile
    /\ rp = ReplayStart
    /\ rp_env = EnvNew
    /\ resetTable = EmptyTable
    /\ stepTable = EmptyTable
    /\ pol = PolOff
    /\ rngTable = EmptyTable
    /\ api = NoCall
    /\ runs \in RunsStart
    /\ ex = ExportOff
    /\ ex_env = EnvNew

NextRunDir ==
    \/ RunChooseId
    \/ RunMakeDir
    \/ RunMakeEnv
    \/ RunWriteTelemetry
    \/ RunWriteJson

SpecRunDir == InitRunDir /\ [][NextRunDir]_vars

\* --env values and make_env keys: the registered ones and one that is not.
EnvKeysTried == {"pacman", "pacman-ram", "invalid"}

\* make_env(key, render_mode=None, frameskip=4, repeat_action_probability=0.0)
\* called directly, as the tests do.
MakeEnvCall ==
    /\ api = NoCall
    /\ runs = NoRuns
    /\ ex = ExportOff
    /\ ex_env = EnvNew
    /\ \E key \in EnvKeysTried :
         api' = [fn |-> "make_env", arg |-> key,
                 ret |-> MakeEnv(key, FrameskipDefault, StickyDefault)]
    /\ UNCHANGED <<args, rec, rec_env, telemetry, run_json, rp, rp_env,
                   resetTable, stepTable, pol, rngTable, runs, ex, ex_env>>

\* record.py from its command line to the first reset, with any --env and
\* --policy value, and make_env called directly.
InitConfig ==
    /\ args \in [seed : Seeds, steps : {0}, single_episode : {FALSE},
                 env_key : EnvKeysTried, policy : RegistryNames,
                 frameskip : {FrameskipDefault}, sticky : {StickyDefault},
                 list_envs : BOOLEAN]
    /\ rec = [RecStart EXCEPT !.pc = "argv"]
    /\ rec_env = EnvNew
    /\ telemetry = <<>>
    /\ run_json = NoFile
    /\ rp = ReplayStart
    /\ rp_env = EnvNew
    /\ resetTable = EmptyTable
    /\ stepTable = EmptyTable
    /\ pol = PolOff
    /\ rngTable = EmptyTable
    /\ api = NoCall
    /\ runs = NoRuns
    /\ ex = ExportOff
    /\ ex_env = EnvNew

NextConfig ==
    \/ RecordParseArgs
    \/ RecordListEnvs
    \/ RecordBegin
    \/ MakeEnvCall

SpecConfig == InitConfig /\ [][NextConfig]_vars

-----------------------------------------------------------------------------
(* Environment calls that raise.  Neither main() has a try block: an
   exception leaves main at the call that raised it. *)

\* record.py line 121: the first env.reset raises.
RecordBeginRaises ==
    /\ rec.pc = "start"
    /\ rec' = [rec EXCEPT !.pc = "crashed", !.run_dir = TRUE,
                          !.env_ctor = MakeEnv(args.env_key, args.frameskip, args.sticky).ctor,
                          !.policy_resets =
                              Append(@, RecPolicyReset(args,
                                  MakeEnv(args.env_key, args.frameskip, args.sticky).ctor,
                                  EnvNew))]
    /\ rec_env' = EnvAfterRaise(rec_env, "reset", args.seed)
    /\ UNCHANGED <<args, telemetry, run_json, rp, rp_env, resetTable, stepTable>>
    /\ UNCHANGED <<pol, rngTable, api,
                   runs, ex, ex_env>>

\* record.py lines 153-157: the action is chosen and appended, env.step raises.
RecordStepRaises ==
    /\ rec.pc = "loop"
    /\ RangeHasNext(rec.step, args.steps)
    /\ \E action \in ActionSpace :
          /\ rec' = [rec EXCEPT !.pc = "crashed",
                                !.policy_calls = Append(rec.policy_calls,
                                                        PolicyActCall(rec, action)),
                                !.actions = RecAppendAction(rec.actions, action)]
          /\ rec_env' = EnvAfterRaise(rec_env, "step", action)
    /\ UNCHANGED <<args, telemetry, run_json, rp, rp_env, resetTable, stepTable>>
    /\ UNCHANGED <<pol, rngTable, api,
                   runs, ex, ex_env>>

\* record.py lines 153-191: the step ends an episode, its telemetry row is
\* written, and the env.reset that opens the next episode raises.
RecordReseedRaises ==
    /\ rec.pc = "loop"
    /\ RangeHasNext(rec.step, args.steps)
    /\ \E action \in ActionSpace, sr \in StepResults :
          LET env1           == EnvAfterStep(rec_env, action, sr)
              done           == RecDone(sr)
              episode_return == RecAccumulate(rec.episode_return, sr.reward)
          IN  /\ done
              /\ ~RecBreaks(done, args.single_episode)
              /\ StepReturns(rec_env, action, sr)
              /\ telemetry' = Append(telemetry,
                     TelemetryRow(rec, action, sr, done, episode_return, sr.obs))
              /\ rec_env' = EnvAfterRaise(env1, "reset", RecNewSeed(args.seed, rec.step))
              /\ rec' = [rec EXCEPT !.pc = "crashed",
                                    !.policy_calls = Append(rec.policy_calls,
                                                            PolicyActCall(rec, action)),
                                    !.actions = RecAppendAction(rec.actions, action),
                                    !.obs = sr.obs,
                                    !.obs_from = Len(env1.calls),
                                    !.total_reward = RecAccumulate(rec.total_reward, sr.reward),
                                    !.episode_return = episode_return,
                                    !.last_reward = sr.reward,
                                    !.last_done = done,
                                    !.episode_step = rec.episode_step + 1]
    /\ UNCHANGED <<args, run_json, rp, rp_env, resetTable>>
    /\ UNCHANGED <<pol, rngTable, api,
                   runs, ex, ex_env>>

\* record.py lines 199-224: run.json is written at 210-222, then env.close()
\* raises at 224.
RecordCloseRaises ==
    /\ \/ rec.pc = "after_loop"
       \/ rec.pc = "loop" /\ ~RangeHasNext(rec.step, args.steps)
    /\ LET final_hash == RecFinalHash(rec) IN
          /\ rec' = [rec EXCEPT !.pc = "crashed", !.final_hash = final_hash]
          /\ run_json' = RunJson(args, rec.actions, rec.total_reward, final_hash)
    /\ rec_env' = EnvAfterRaise(rec_env, "close", 0)
    /\ UNCHANGED <<args, telemetry, rp, rp_env, resetTable, stepTable>>
    /\ UNCHANGED <<pol, rngTable, api,
                   runs, ex, ex_env>>

\* replay.py lines 31-39: the environment is constructed, env.reset raises.
ReplayBeginRaises ==
    /\ rp.pc = "parsed"
    /\ run_json.exists
    /\ ReplayLoad(run_json).error = NoError
    /\ rp' = [rp EXCEPT !.pc = "crashed", !.data = run_json, !.exit = <<1>>,
                        !.env_ctor = ReplayLoad(run_json).ctor]
    /\ rp_env' = EnvAfterRaise(EnvNew, "reset", run_json.spec.seed)
    /\ UNCHANGED <<args, rec, rec_env, telemetry, run_json, resetTable, stepTable>>
    /\ UNCHANGED <<pol, rngTable, api,
                   runs, ex, ex_env>>

\* replay.py line 48: env.step raises.
ReplayStepRaises ==
    /\ rp.pc = "loop"
    /\ ReplayLoopHasNext(rp.data, rp.step)
    /\ rp' = [rp EXCEPT !.pc = "crashed", !.exit = <<1>>]
    /\ rp_env' = EnvAfterRaise(rp_env, "step", rp.data.actions[rp.step + 1])
    /\ UNCHANGED <<args, rec, rec_env, telemetry, run_json, resetTable, stepTable>>
    /\ UNCHANGED <<pol, rngTable, api,
                   runs, ex, ex_env>>

\* replay.py lines 48-56: the step ends an episode and the env.reset raises.
ReplayReseedRaises ==
    /\ rp.pc = "loop"
    /\ ReplayLoopHasNext(rp.data, rp.step)
    /\ LET step   == rp.step
           action == rp.data.actions[step + 1]
       IN  \E sr \in StepResults :
              LET env1 == EnvAfterStep(rp_env, action, sr) IN
                  /\ ReplayDone(sr)
                  /\ StepReturns(rp_env, action, sr)
                  /\ rp_env' = EnvAfterRaise(env1, "reset",
                                    ReplayNewSeed(rp.data.spec.seed, step))
                  /\ rp' = [rp EXCEPT !.pc = "crashed", !.exit = <<1>>,
                                      !.obs = sr.obs,
                                      !.total_reward = rp.total_reward + sr.reward,
                                      !.last_hash = obs_hash(sr.obs),
                                      !.hash_from = Len(env1.calls)]
    /\ UNCHANGED <<args, rec, rec_env, telemetry, run_json, resetTable>>
    /\ UNCHANGED <<pol, rngTable, api,
                   runs, ex, ex_env>>

\* replay.py line 59: env.close() raises, before the verdict is computed.
ReplayCloseRaises ==
    /\ rp.pc = "loop"
    /\ ~ReplayLoopHasNext(rp.data, rp.step)
    /\ rp' = [rp EXCEPT !.pc = "crashed", !.exit = <<1>>]
    /\ rp_env' = EnvAfterRaise(rp_env, "close", 0)
    /\ UNCHANGED <<args, rec, rec_env, telemetry, run_json, resetTable, stepTable>>
    /\ UNCHANGED <<pol, rngTable, api,
                   runs, ex, ex_env>>

\* Record and replay with an environment whose calls may raise.
NextFault ==
    \/ Next
    \/ RecordBeginRaises
    \/ RecordStepRaises
    \/ RecordReseedRaises
    \/ RecordCloseRaises
    \/ ReplayBeginRaises
    \/ ReplayStepRaises
    \/ ReplayReseedRaises
    \/ ReplayCloseRaises

SpecFault == Init /\ [][NextFault]_vars

-----------------------------------------------------------------------------
(* Reading the call log of an environment handle *)

StepCalls(c) == { i \in 1..Len(c) : c[i].op = "step" }

ResetCalls(c) == { i \in 1..Len(c) : c[i].op = "reset" }

\* The step calls whose StepResult signalled done.
DoneCalls(c) == { i \in StepCalls(c) : c[i].ret.terminated \/ c[i].ret.truncated }

\* The 0-based global index of the step made by call i.
StepIndex(c, i) == Cardinality({ j \in StepCalls(c) : j < i })

IsResetCall(x) == x.op = "reset"

\* The seeds of the reset calls, in call order.
ResetSeeds(c) ==
    LET r == SelectSeq(c, IsResetCall) IN [i \in 1..Len(r) |-> r[i].arg]

ReplayOver == rp.pc \in {"reported", "exited"}

\* The value printed after `label` in the replay report.
Printed(label) ==
    rp.out[CHOOSE i \in 1..Len(rp.out) : rp.out[i].label = label].value

-----------------------------------------------------------------------------
(* Claims *)

\* C1: a recording made with single_episode = false and a step budget >= 0,
\* replayed against the same deterministic environment, reports
\* deterministic_reward = true and deterministic_hash = true and exits 0.
C1_EndToEndMultiEpisode ==
    (ReplayOver /\ ~args.single_episode /\ args.steps >= 0) =>
        /\ Printed("deterministic_reward") = TRUE
        /\ Printed("deterministic_hash") = TRUE
        /\ rp.pc = "exited" => rp.exit = <<0>>

\* A replay that ended after a recording of three steps, the first and the
\* last of which ended an episode.
C1_Witness ==
    /\ rp.pc = "exited"
    /\ ~args.single_episode
    /\ Len(telemetry) = 3
    /\ telemetry[1].done = 1
    /\ telemetry[2].done = 0
    /\ telemetry[3].done = 1
    /\ rp.exit = <<0>>

\* C2: replaying a single-episode recording that stopped at a done step
\* reproduces the recorded total reward and the recorded final fingerprint,
\* the replayer's fingerprint being taken from the observation returned by the
\* same environment call as the recorder's (the terminating step).
C2_SingleEpisodeReplayAgrees ==
    (ReplayOver /\ args.single_episode /\ rec.last_done) =>
        /\ rp.total_reward = run_json.total_reward
        /\ rp.last_hash = run_json.final_obs_hash
        /\ rp.hash_from = rec.obs_from

\* C3: the recorder's first environment call is reset(seed = args.seed), and
\* when single_episode is not set, the call that follows a step of global
\* index k that signalled done is reset(seed = args.seed + k + 1).
C3_RecorderSeedSchedule ==
    LET c == rec_env.calls IN
    /\ Len(c) >= 1 => (c[1].op = "reset" /\ c[1].arg = args.seed)
    /\ ~args.single_episode =>
          \A i \in DoneCalls(c) :
             /\ i + 1 <= Len(c)
             /\ c[i + 1].op = "reset"
             /\ c[i + 1].arg = args.seed + StepIndex(c, i) + 1

\* A multi-episode recording whose step 2 ended its second episode: the global
\* step index, the index within the episode and the episode counter all differ.
C3_Witness ==
    /\ ~args.single_episode
    /\ Len(telemetry) = 3
    /\ telemetry[1].done = 1
    /\ telemetry[3].done = 1
    /\ telemetry[3].step = 2
    /\ telemetry[3].episode_step = 1
    /\ telemetry[3].episode_id = 1
    /\ Len(rec_env.calls) >= 6

\* C4: a finished replay has reset once with spec.seed before the first
\* action, has reset with spec.seed + k + 1 right after every action index k
\* whose step was done, and has made no other reset; for a multi-episode
\* recording its sequence of reset seeds is the recorder's.
C4_ReplaySeedSchedule ==
    ReplayOver =>
        LET c    == rp_env.calls
            seed == run_json.spec.seed
        IN  /\ c[1].op = "reset" /\ c[1].arg = seed
            /\ \A i \in DoneCalls(c) :
                  /\ c[i + 1].op = "reset"
                  /\ c[i + 1].arg = seed + StepIndex(c, i) + 1
            /\ \A i \in ResetCalls(c) : i = 1 \/ (i - 1) \in DoneCalls(c)
            /\ Cardinality(ResetCalls(c)) = 1 + Cardinality(DoneCalls(c))
            /\ ~args.single_episode => ResetSeeds(c) = ResetSeeds(rec_env.calls)

\* A finished replay of a multi-episode recording with two done steps.
C4_Witness ==
    /\ rp.pc = "exited"
    /\ ~args.single_episode
    /\ Cardinality(DoneCalls(rp_env.calls)) = 2
    /\ Len(ResetSeeds(rp_env.calls)) = 3

\* C5: the replay of a single-episode recording resets the environment
\* exactly once, with the base seed, as the recorder did.
C5_SingleEpisodeReplayResetsOnce ==
    (ReplayOver /\ args.single_episode) =>
        /\ ResetSeeds(rp_env.calls) = <<run_json.spec.seed>>
        /\ ResetSeeds(rp_env.calls) = ResetSeeds(rec_env.calls)

\* The labels of the report lines, in print order.
ReportLabels == [i \in 1..Len(rp.out) |-> rp.out[i].label]

\* The distance of two doubles, as its decimal part in units of 1e-7 and its
\* residue in units of 1e-24.
Binary64Distance(a, b) ==
    LET hi == IF a > b THEN a ELSE b
        lo == IF a > b THEN b ELSE a
    IN  <<hi - lo, Binary64Residue(hi) - Binary64Residue(lo)>>

\* One such quantity is below another.
Binary64Less(x, y) == x[1] < y[1] \/ (x[1] = y[1] /\ x[2] < y[2])

\* C6: a replay returns normally exactly when the replayed total reward is
\* within 1e-6 of the recorded one (both as doubles, the distance below the
\* double 1e-6) and the replayed final fingerprint equals
\* the recorded one, and exits with code 2 otherwise; each flag reports its own
\* check, so a total_reward off by 1.0 alone gives (false, true) and exit 2,
\* and a wrong hash alone gives (true, false) and exit 2.
C6_ReplayVerdict ==
    rp.pc = "exited" =>
        LET diff  == rp.total_reward - run_json.total_reward
            near  == Binary64Less(Binary64Distance(rp.total_reward, run_json.total_reward),
                                  <<Tolerance, Binary64Residue(Tolerance)>>)
            equal == rp.last_hash = run_json.final_obs_hash
        IN  /\ (near /\ equal) <=> rp.exit = <<0>>
            /\ ~(near /\ equal) <=> rp.exit = <<2>>
            /\ Printed("deterministic_reward") = near
            /\ Printed("deterministic_hash") = equal
            /\ (Abs(diff) = OneReward /\ equal) =>
                  /\ Printed("deterministic_reward") = FALSE
                  /\ Printed("deterministic_hash") = TRUE
                  /\ rp.exit = <<2>>
            /\ (diff = 0 /\ ~equal) =>
                  /\ Printed("deterministic_reward") = TRUE
                  /\ Printed("deterministic_hash") = FALSE
                  /\ rp.exit = <<2>>

\* A replay whose only defect is a recorded total_reward off by 1.0.
C6_Witness ==
    /\ rp.pc = "exited"
    /\ Len(run_json.actions) >= 2
    /\ Abs(rp.total_reward - run_json.total_reward) = OneReward
    /\ rp.last_hash = run_json.final_obs_hash
    /\ rp.exit = <<2>>

\* C7: the exit code of a usage error (--run missing) differs from the exit
\* code replay raises on a determinism mismatch.
C7_ExitCodesDistinguishable ==
    rp.pc = "usage_error" => rp.exit # <<ExitCode(FALSE, FALSE)>>

\* C8: a replay that exits with the mismatch code has executed every recorded
\* action, has closed the environment, and has printed the expected and the
\* actual total reward, the expected and the actual final hash and both
\* verdict flags.
C8_MismatchFullyReported ==
    (rp.pc = "exited" /\ rp.exit = <<2>>) =>
        LET c == rp_env.calls IN
        /\ rp.step = Len(run_json.actions)
        /\ Cardinality(StepCalls(c)) = Len(run_json.actions)
        /\ \A i \in StepCalls(c) : c[i].arg = run_json.actions[StepIndex(c, i) + 1]
        /\ c[Len(c)].op = "close"
        /\ ReportLabels = << "steps", "expected_total_reward", "actual_total_reward",
                             "expected_final_hash", "actual_final_hash",
                             "deterministic_reward", "deterministic_hash" >>
        /\ Printed("expected_total_reward") = Fmt6(run_json.total_reward)
        /\ Printed("actual_total_reward") = Fmt6(rp.total_reward)
        /\ Printed("expected_final_hash") = run_json.final_obs_hash
        /\ Printed("actual_final_hash") = rp.last_hash
        /\ Printed("deterministic_reward") = rp.ok_reward
        /\ Printed("deterministic_hash") = rp.ok_hash

\* A mismatch exit whose reward already differed after the first of three
\* actions and whose hash differs too.
C8_Witness ==
    /\ rp.pc = "exited"
    /\ rp.exit = <<2>>
    /\ Len(run_json.actions) = 3
    /\ rp_env.calls[2].ret.reward = 0
    /\ rp.total_reward = 0
    /\ ~rp.ok_reward
    /\ ~rp.ok_hash

\* C9: in a single-episode recording whose first done step has global index
\* k < steps, exactly k + 1 actions are recorded and persisted, and the
\* environment is neither stepped nor reset after that step.
C9_SingleEpisodeLength ==
    LET c == rec_env.calls
        D == DoneCalls(c)
    IN  (args.single_episode /\ D # {}) =>
            LET first == CHOOSE i \in D : \A j \in D : i <= j
                k     == StepIndex(c, first)
            IN  /\ k < args.steps
                /\ Len(rec.actions) = k + 1
                /\ \A j \in (first + 1)..Len(c) : c[j].op = "close"
                /\ rec.pc = "done" => Len(run_json.actions) = k + 1

\* A single-episode recording that ended at step 1 of a budget of 3.
C9_Witness ==
    /\ args.single_episode
    /\ args.steps = 3
    /\ rec.pc = "done"
    /\ Len(telemetry) = 2
    /\ telemetry[2].done = 1
    /\ Len(run_json.actions) = 2

\* C10 as stated: a multi-episode recording ends after exactly `steps`
\* iterations with exactly `steps` actions in the artifact.
C10_ExactlyStepsActions ==
    (rec.pc = "done" /\ ~args.single_episode) =>
        /\ rec.step = args.steps
        /\ Len(run_json.actions) = args.steps

\* C10 amended: a multi-episode recording never runs more iterations than the
\* budget, can always go on until it has ended, and ends after exactly `steps`
\* iterations with exactly `steps` actions when steps >= 0, and after none
\* when steps < 0, however many steps signalled done.
C10_BudgetTermination ==
    LET n == IF args.steps >= 0 THEN args.steps ELSE 0 IN
    ~args.single_episode =>
        /\ rec.step <= n
        /\ Cardinality(StepCalls(rec_env.calls)) = rec.step
        /\ rec.pc = "loop" => (rec.step < n <=> ENABLED RecordStep)
        /\ rec.pc = "loop" => (rec.step = n <=> ENABLED RecordFinish)
        /\ rec.pc = "done" =>
              /\ rec.step = n
              /\ Len(run_json.actions) = n
              /\ Len(telemetry) = n

\* A multi-episode recording that used its whole budget of 3 with every step
\* signalling done.
C10_Witness ==
    /\ rec.pc = "done"
    /\ ~args.single_episode
    /\ args.steps = 3
    /\ Len(run_json.actions) = 3
    /\ \A i \in 1..3 : telemetry[i].done = 1

IsStepCall(x) == x.op = "step"

\* The actions passed to step(), in call order.
StepActions(c) ==
    LET r == SelectSeq(c, IsStepCall) IN [i \in 1..Len(r) |-> r[i].arg]

CloseCalls(c) == { i \in 1..Len(c) : c[i].op = "close" }

\* C11: between iterations of a recording the number of recorded actions
\* equals the number of step() calls made and the number of telemetry rows
\* written, the recorded actions are the actions passed to step() in order,
\* and run.json holds exactly that list.
C11_ArtifactLength ==
    LET c == rec_env.calls IN
    /\ Len(rec.actions) = Cardinality(StepCalls(c))
    /\ Len(rec.actions) = Len(telemetry)
    /\ rec.actions = StepActions(c)
    /\ \A i \in 1..Len(telemetry) : telemetry[i].action = rec.actions[i]
    /\ run_json.exists => run_json.actions = StepActions(c)

\* A persisted artifact of three steps in which an action was repeated.
C11_Witness ==
    /\ run_json.exists
    /\ Len(run_json.actions) = 3
    /\ run_json.actions[1] = run_json.actions[2]
    /\ run_json.actions[2] # run_json.actions[3]

\* C12: a recording that has ended (budget exhausted or single-episode stop)
\* and a replay that has reported its verdict (pass or fail) have each closed
\* their environment exactly once, and in neither log does any call follow
\* close().
C12_ClosedExactlyOnce ==
    LET cr == rec_env.calls
        cp == rp_env.calls
    IN  /\ rec.pc = "done" => Cardinality(CloseCalls(cr)) = 1
        /\ ReplayOver => Cardinality(CloseCalls(cp)) = 1
        /\ \A i \in CloseCalls(cr) : i = Len(cr)
        /\ \A i \in CloseCalls(cp) : i = Len(cp)
        /\ rec.pc \in {"start", "loop", "after_loop"} => CloseCalls(cr) = {}
        /\ rp.pc \in {"start", "parsed", "loop"} => CloseCalls(cp) = {}

\* A single-episode recording that stopped early, replayed to a failed verdict.
C12_Witness ==
    /\ run_json.exists
    /\ args.single_episode
    /\ Len(run_json.actions) < args.steps
    /\ rp.pc = "exited"
    /\ rp.exit = <<2>>
    /\ Cardinality(CloseCalls(rec_env.calls)) = 1
    /\ Cardinality(CloseCalls(rp_env.calls)) = 1

\* The calls that raised.
RaisedCalls(c) == { i \in 1..Len(c) : c[i].op = "raise" }

\* The close() calls made, returned or raised.
CloseAttempts(c) ==
    CloseCalls(c) \cup { i \in RaisedCalls(c) : c[i].arg[1] = "close" }

\* C13: when an environment call raises after the environment was
\* constructed, in the recorder or in replay, close() is still called exactly
\* once on that environment before the error leaves the process.
C13_ClosedOnError ==
    /\ rec.pc = "crashed" => Cardinality(CloseAttempts(rec_env.calls)) = 1
    /\ rp.pc = "crashed" => Cardinality(CloseAttempts(rp_env.calls)) = 1

\* C14: when any environment call of the recorder (reset, step or close)
\* raises, the recording ends abnormally and no run.json has been written.
C14_NoArtifactOnError ==
    rec.pc = "crashed" => ~run_json.exists

\* The observation returned by call x of an environment log.
ObsOfCall(x) == IF x.op = "reset" THEN x.ret ELSE x.ret.obs

\* C15: at every iteration after the first the recorder passes to policy.act
\* the reward and the done flag returned by the step of the iteration before,
\* and the latest observation; so the iteration after a done step passes
\* done = true and that step's reward.
C15_PolicySeesPreviousStep ==
    LET c  == rec_env.calls
        st == SelectSeq(c, IsStepCall)
    IN  \A i \in 2..Len(rec.policy_calls) :
           LET call == rec.policy_calls[i]
               prev == st[i - 1].ret
           IN  /\ call.reward = prev.reward
               /\ call.done = (prev.terminated \/ prev.truncated)
               /\ i <= Len(st) =>
                     \E k \in StepCalls(c) :
                        /\ StepIndex(c, k) = i - 1
                        /\ call.obs = ObsOfCall(c[k - 1])

-----------------------------------------------------------------------------
(* Reading the policy driver *)

\* The last call made of A was act (not the common reset).
LastWasAct == pol.phase = "prior_used" \/ (pol.phase = "run" /\ pol.acts > 0)

\* C16: after reset an instance behaves as a function of the reset arguments
\* and the act inputs only: an instance that was reset and used before is,
\* after the common reset and after every common act call, in the same state
\* as a fresh instance and has returned the same actions; right after reset
\* the progress counter and the direction index are 0.
C16_ResetForgetsPriorUse ==
    pol.phase = "run" =>
        /\ pol.A = pol.B
        /\ \A k \in 1..Len(pol.outsA) : pol.outsA[k] = pol.outsB[k]
        /\ pol.acts = 0 =>
              /\ pol.A.since_progress = 0
              /\ pol.A.cur_idx = 0
              /\ pol.A.rng = RngNew(pol.reset_args.seed)
              /\ pol.A.n = pol.reset_args.action_space_n

\* A sticky instance whose counter had advanced under another seed and
\* vocabulary, reset and then driven to the end beside a fresh one.
C16_Witness ==
    /\ pol.phase = "run"
    /\ pol.A.name = "sticky_dir"
    /\ pol.prior.since_progress > 0
    /\ pol.prior.rng.seed # pol.reset_args.seed
    /\ pol.prior.dir_actions # pol.A.dir_actions
    /\ pol.acts = MaxActs

\* C17: two instances of the same class reset with the same seed, vocabulary
\* and action count and given the same act calls return the same actions, for
\* RandomPolicy and for StickyDirectionalPolicy.
C17_SameSeedSameActions ==
    pol.phase = "run" =>
        /\ Len(pol.outsA) = pol.acts
        /\ pol.outsA = pol.outsB

\* Both classes were driven to the end with returns that were not constant
\* (the sticky one with a jitter draw), A after use under another seed.
C17_Witness ==
    /\ pol.phase = "run"
    /\ pol.acts = MaxActs
    /\ pol.outsA[1] # pol.outsA[2]
    /\ pol.prior.rng.seed \notin {NoSeed, pol.reset_args.seed}
    /\ \/ pol.A.name = "random"
       \/ /\ pol.A.name = "sticky_dir"
          /\ \E i \in 1..Len(pol.A.rng.reqs) : pol.A.rng.reqs[i][1] = "integers"

\* C18: for any vocabulary and any action count >= 1 given to reset, every
\* action act returns is in [0, action_count).
C18_ActionInRange ==
    pol.phase = "run" =>
        \A k \in 1..Len(pol.outsA) :
            pol.outsA[k] \in 0..(pol.reset_args.action_space_n - 1)

\* C19: StickyDirectionalPolicy with stuck window w >= 1, jitter probability 0 and
\* at least two directions, called after reset with reward <= 0 and done false
\* every time: calls 1..w-1 return the initial direction, the rotation happens
\* in call w, where the counter reaches w, and call w+1 returns a direction
\* other than that of call 1.
C19_StuckRotationThreshold ==
    ( /\ pol.phase = "run"
      /\ pol.A.name = "sticky_dir"
      /\ pol.A.stuck_window >= 1
      /\ pol.A.jitter_prob = 0
      /\ Len(pol.A.dir_actions) >= 2
      /\ pol.calm ) =>
        LET w == pol.A.stuck_window
            o == pol.outsA
        IN  /\ \A k \in 1..Len(o) : k < w => o[k] = pol.A.dir_actions[1]
            /\ Len(o) >= w => o[w] = pol.A.dir_actions[2]
            /\ Len(o) >= w + 1 => o[w + 1] # o[1]

\* The largest window, driven one call past its rotation.
C19_Witness ==
    /\ pol.phase = "run"
    /\ pol.A.name = "sticky_dir"
    /\ pol.A.jitter_prob = 0
    /\ pol.A.stuck_window = MaxWindow
    /\ Len(pol.A.dir_actions) >= 2
    /\ pol.calm
    /\ pol.acts = pol.A.stuck_window + 1

\* C20: an act call of StickyDirectionalPolicy with done true sets the
\* progress counter to 0, leaves the direction index and the current action
\* as they were, returns that action, and does not advance the generator.
C20_DonePrecedence ==
    (LastWasAct /\ pol.A.name = "sticky_dir" /\ pol.last_in.done) =>
        /\ pol.A.since_progress = 0
        /\ pol.A.cur_idx = pol.pre.cur_idx
        /\ pol.A.cur_action = pol.pre.cur_action
        /\ pol.last_out = pol.pre.cur_action
        /\ pol.A.rng = pol.pre.rng

\* A done call that found the counter advanced and the direction turned, on an
\* instance with jitter.
C20_Witness ==
    /\ LastWasAct
    /\ pol.A.name = "sticky_dir"
    /\ pol.A.jitter_prob > 0
    /\ pol.last_in.done
    /\ pol.last_in.reward <= 0
    /\ pol.pre.since_progress > 0
    /\ pol.pre.cur_idx > 0

\* The last call made of A was StickyDirectionalPolicy.act with done false.
LastWasStickyStep ==
    LastWasAct /\ pol.A.name = "sticky_dir" /\ ~pol.last_in.done

\* The requests of A's generator once that call had asked for its jitter draw.
JitterReqs == Append(pol.pre.rng.reqs, <<"random", 0>>)

\* The value of that jitter draw.
JitterDraw == rngTable[<<pol.pre.rng.seed, JitterReqs>>]

\* The requests once the call had also drawn a direction, and the direction.
DirectionReqs == Append(JitterReqs, <<"integers", Len(pol.pre.dir_actions)>>)

DirectionDraw == rngTable[<<pol.pre.rng.seed, DirectionReqs>>]

\* The counter of that call after lines 73-76.
CounterAfterReward ==
    IF pol.last_in.reward > 0 THEN 0 ELSE pol.pre.since_progress + 1

\* C21: in an act call with done false whose jitter draw is below
\* jitter_prob, the direction becomes the member of the direction set drawn
\* from the generator, the counter becomes 0 and that direction is returned;
\* no stuck rotation is applied on top of it, whatever the counter had reached.
C21_JitterPreempts ==
    (LastWasStickyStep /\ JitterDraw < pol.pre.jitter_prob) =>
        /\ pol.A.rng.reqs = DirectionReqs
        /\ DirectionDraw \in 0..(Len(pol.pre.dir_actions) - 1)
        /\ pol.A.cur_idx = DirectionDraw
        /\ pol.A.cur_action = pol.pre.dir_actions[DirectionDraw + 1]
        /\ pol.last_out = pol.A.cur_action
        /\ pol.A.since_progress = 0

\* Jitter fired in a call whose counter had reached the window, and drew a
\* direction that is not the next one in cyclic order.
C21_Witness ==
    /\ LastWasStickyStep
    /\ JitterDraw < pol.pre.jitter_prob
    /\ pol.pre.stuck_window >= 1
    /\ CounterAfterReward >= pol.pre.stuck_window
    /\ pol.A.cur_idx # (pol.pre.cur_idx + 1) % Len(pol.pre.dir_actions)
    /\ pol.phase = "run"

\* What C23 says of the last call: a positive reward clears the counter and,
\* without jitter, keeps the direction; otherwise the counter is one more
\* when the jitter and stuck tests read it.
ProgressRule ==
    /\ pol.last_in.reward > 0 =>
          /\ pol.A.since_progress = 0
          /\ JitterDraw >= pol.pre.jitter_prob =>
                /\ pol.A.cur_idx = pol.pre.cur_idx
                /\ pol.last_out = pol.pre.cur_action
    /\ (pol.last_in.reward <= 0 /\ JitterDraw >= pol.pre.jitter_prob) =>
          IF pol.pre.since_progress + 1 >= pol.pre.stuck_window
          THEN /\ pol.A.since_progress = 0
               /\ pol.A.cur_idx = (pol.pre.cur_idx + 1) % Len(pol.pre.dir_actions)
          ELSE /\ pol.A.since_progress = pol.pre.since_progress + 1
               /\ pol.A.cur_idx = pol.pre.cur_idx
               /\ pol.last_out = pol.pre.cur_action

\* C23 as stated: the rule holds of every act call with done false, whatever
\* stuck_window is.
C23_PositiveRewardIsProgress ==
    LastWasStickyStep => ProgressRule

\* C23: the rule holds of every act call with done false of a policy whose
\* stuck_window is at least 1.
C23_PositiveRewardIsProgressFromWindowOne ==
    (LastWasStickyStep /\ pol.pre.stuck_window >= 1) => ProgressRule

\* A positive reward found the counter advanced and the direction turned, the
\* jitter draw did not fire, and the call kept the direction.
C23_Witness ==
    /\ LastWasStickyStep
    /\ pol.pre.stuck_window >= 1
    /\ pol.last_in.reward > 0
    /\ JitterDraw >= pol.pre.jitter_prob
    /\ pol.pre.jitter_prob > 0
    /\ pol.pre.since_progress > 0
    /\ pol.pre.cur_idx > 0

\* The common reset of a StickyDirectionalPolicy has been called.
StickyWasReset ==
    pol.phase \in {"run", "raised"} /\ pol.A.name = "sticky_dir"

\* The directional names that occur in the vocabulary of the common reset.
NamesPresent == Range(Dirs) \cap Range(pol.reset_args.action_meanings)

\* The position of a directional name in UP, RIGHT, DOWN, LEFT.
DirRank(d) == CHOOSE i \in 1..Len(Dirs) : Dirs[i] = d

\* The direction set is as C22 describes it.
DirectionSetRule ==
    LET da == pol.A.dir_actions
        m  == pol.reset_args.action_meanings
        n  == pol.reset_args.action_space_n
    IN  IF NamesPresent # {}
        THEN /\ Len(da) = Cardinality(NamesPresent)
             /\ \A i \in 1..Len(da) :
                   /\ m[da[i] + 1] \in NamesPresent
                   /\ \A j \in 1..da[i] : m[j] # m[da[i] + 1]
             /\ \A i, j \in 1..Len(da) :
                   i < j => DirRank(m[da[i] + 1]) < DirRank(m[da[j] + 1])
        ELSE /\ Len(da) = (IF n < 4 THEN n ELSE 4)
             /\ \A i \in 1..Len(da) : da[i] = i - 1

\* Without directional names and with fewer than four actions nothing
\* raises, the direction set is the existing actions, and the stuck rotation
\* (no jitter, no progress) walks it in order and wraps around.
SmallFallbackRule ==
    LET da == pol.A.dir_actions
        n  == pol.reset_args.action_space_n
        w  == pol.A.stuck_window
    IN  /\ pol.A.error = ""
        /\ { da[i] : i \in 1..Len(da) } = 0..(n - 1)
        /\ (pol.calm /\ pol.A.jitter_prob = 0) =>
              \A k \in 1..Len(pol.outsA) :
                 LET turns == IF w <= 1 THEN k ELSE k \div w
                 IN  pol.outsA[k] = da[(turns % Len(da)) + 1]

\* C22 as stated: the small fallback is claimed for every action_count below
\* four.
C22_DirectionSet ==
    StickyWasReset =>
        /\ DirectionSetRule
        /\ (NamesPresent = {} /\ pol.reset_args.action_space_n < 4) => SmallFallbackRule

\* C22: the direction set is the vocabulary indices of UP, RIGHT, DOWN, LEFT
\* that occur, in that order, or 0..min(4, action_count)-1 if none occurs; for
\* an action_count from 1 to 3 without directional names nothing raises, the
\* set is the existing actions and the stuck rotation cycles through it.
C22_DirectionSetFromOneAction ==
    StickyWasReset =>
        /\ DirectionSetRule
        /\ ( /\ NamesPresent = {}
             /\ pol.reset_args.action_space_n >= 1
             /\ pol.reset_args.action_space_n < 4 ) => SmallFallbackRule

\* A fallback set of two actions was rotated three times, wrapping around.
C22_Witness ==
    /\ StickyWasReset
    /\ NamesPresent = {}
    /\ pol.reset_args.action_space_n = 2
    /\ pol.A.stuck_window = 1
    /\ pol.A.jitter_prob = 0
    /\ pol.calm
    /\ pol.outsA = <<1, 0, 1>>


\* ---------------------------------------------------------------------------
\* The policy registry.

\* The make_policy calls that raised, and those that returned.
MakeRaised == { i \in 1..Len(pol.made) : pol.made[i].error # NoError }
MakeReturned == { i \in 1..Len(pol.made) : pol.made[i].error = NoError }

\* C24: make_policy with a name that is not registered raises ValueError saying
\* the policy is unknown, naming it and listing every registered name; it
\* returns no instance; the registry and its prototypes stay as they were, and
\* calls with registered names, before or after, return an instance.
C24_UnknownPolicyName ==
    pol.phase = "registry" =>
        /\ \A i \in 1..Len(pol.made) :
             LET m == pol.made[i]
             IN  IF m.name \in DOMAIN RegisteredPolicies
                 THEN m.error = NoError /\ m.ret > 0 /\ pol.heap[m.ret].name = m.name
                 ELSE /\ m.ret = 0
                      /\ m.error.type = "ValueError"
                      /\ m.error.text = "Unknown policy"
                      /\ m.error.name = m.name
                      /\ Range(m.error.valid) = DOMAIN RegisteredPolicies
                      /\ Len(m.error.valid) = Cardinality(DOMAIN RegisteredPolicies)
        /\ pol.registry = RegisteredPolicies
        /\ \A name \in DOMAIN RegisteredPolicies :
             pol.heap[pol.registry[name]] = PolicyHeap[RegisteredPolicies[name]]
        /\ Len(pol.handles) = Cardinality(MakeReturned)

\* A call with an unknown name raised, and a later call returned an instance
\* that was then reset.
C24_Witness ==
    /\ pol.phase = "registry"
    /\ \E i \in MakeRaised, j \in MakeReturned : i < j
    /\ \E k \in 1..Len(pol.handles) : pol.handles[k].was_reset


\* The heap cells make_policy returned, in call order.
HandleIds == [k \in 1..Len(pol.handles) |-> pol.handles[k].id]

\* C25: every make_policy call returns a new instance, distinct from the
\* registered prototypes and from every earlier result; under any interleaving
\* of reset and act on the instances, each one's state and returned actions
\* are those of an instance of its class used alone with the same calls, and
\* the prototypes are never changed.
C25_NoAliasing ==
    pol.phase = "registry" =>
        /\ \A k \in 1..Len(pol.handles) :
             /\ \A name \in DOMAIN pol.registry : HandleIds[k] # pol.registry[name]
             /\ \A j \in 1..(k - 1) : HandleIds[j] # HandleIds[k]
             /\ pol.heap[HandleIds[k]] = pol.handles[k].iso
             /\ pol.handles[k].outs = pol.handles[k].iso_outs
        /\ \A name \in DOMAIN pol.registry :
             pol.heap[pol.registry[name]] = PolicyHeap[RegisteredPolicies[name]]

\* Two instances of one class were made and reset with different arguments,
\* and both acted.
C25_Witness ==
    /\ pol.phase = "registry"
    /\ \E j, k \in 1..Len(pol.handles) :
         /\ j < k
         /\ pol.handles[j].name = pol.handles[k].name
         /\ pol.handles[j].was_reset /\ pol.handles[k].was_reset
         /\ pol.handles[j].iso.n # pol.handles[k].iso.n
         /\ pol.handles[j].outs # <<>> /\ pol.handles[k].outs # <<>>


\* ---------------------------------------------------------------------------
\* Configuration errors.

\* The record request names an environment key or a policy that is not
\* registered.
BadRequest ==
    \/ args.env_key \notin DOMAIN EnvSpecs
    \/ args.policy \notin DOMAIN RegisteredPolicies

\* C26: a record request with an unknown environment key or an unknown policy
\* name ends in an error that names the option and the value and lists the
\* valid choices of that option, with no run directory made, no environment
\* constructed and no environment call made; make_env with an unknown key
\* raises without having called the environment adapter's constructor.
C26_ConfigErrorsFailFast ==
    /\ (BadRequest /\ rec.pc # "argv") =>
          /\ rec.pc = "usage_error"
          /\ rec.exit = <<UsageExit>>
          /\ \/ /\ rec.err.text = "--env"
                /\ rec.err.name = args.env_key
                /\ args.env_key \notin DOMAIN EnvSpecs
                /\ Range(rec.err.valid) = DOMAIN EnvSpecs
             \/ /\ rec.err.text = "--policy"
                /\ rec.err.name = args.policy
                /\ args.policy \notin DOMAIN RegisteredPolicies
                /\ Range(rec.err.valid) = DOMAIN RegisteredPolicies
          /\ rec.env_ctor = <<>>
          /\ ~rec.run_dir
          /\ rec_env = EnvNew
    /\ (api.fn = "make_env" /\ api.arg \notin DOMAIN EnvSpecs) =>
          /\ api.ret.error.type = "ValueError"
          /\ api.ret.error.name = api.arg
          /\ api.ret.ctor = <<>>

\* A request with a registered environment and an unknown policy was
\* rejected, and make_env was called with an unknown key.
C26_Witness ==
    /\ rec.pc = "usage_error"
    /\ args.env_key \in DOMAIN EnvSpecs
    /\ args.policy \notin DOMAIN RegisteredPolicies
    /\ api.fn = "make_env"
    /\ api.arg \notin DOMAIN EnvSpecs


\* ---------------------------------------------------------------------------
\* Artifacts that lack keys.

\* The document with the defaults written in for the frameskip and
\* repeat_action_probability it lacks.
Filled(d) ==
    [d EXCEPT !.missing = @ \ {"frameskip", "repeat_action_probability"},
              !.spec.frameskip =
                  IF "frameskip" \in d.missing THEN 4 ELSE @,
              !.spec.repeat_action_probability =
                  IF "repeat_action_probability" \in d.missing THEN 0 ELSE @]

\* replay.py went past loading the document.
ReplayLoaded == rp.pc \notin {"start", "parsed", "usage_error"}

\* The rewards of the steps replayed, summed.
ReplayedReward(c) ==
    LET st == SelectSeq(c, IsStepCall)
        sum[i \in 0..Len(st)] == IF i = 0 THEN 0 ELSE sum[i - 1] + st[i].ret.reward
    IN  sum[Len(st)]

\* C27: replaying a document that lacks only optional keys never fails while
\* loading; the environment is constructed with the arguments the same
\* document gives with frameskip = 4 and repeat_action_probability = 0.0
\* written in for those it lacks; the first reset has the document's seed, the
\* steps are the document's actions, and the verdict compares the replayed
\* reward and hash with the document's values.
C27_OlderArtifacts ==
    LET d == run_json IN
    (ReplayLoaded /\ d.missing \subseteq OptionalKeys) =>
        /\ rp.err = NoError
        /\ rp.env_ctor = << ALEEnvArgs(Filled(d).spec.env_id, Filled(d).spec.frameskip,
                                       Filled(d).spec.repeat_action_probability) >>
        /\ rp.env_ctor = ReplayLoad(Filled(d)).ctor
        /\ rp_env.calls[1].op = "reset" /\ rp_env.calls[1].arg = d.spec.seed
        /\ StepActions(rp_env.calls) = SubSeq(d.actions, 1, rp.step)
        /\ rp.pc \in {"reported", "exited"} =>
              /\ rp.step = Len(d.actions)
              /\ rp.ok_reward = OkReward(ReplayedReward(rp_env.calls), d.total_reward)
              /\ rp.ok_hash = OkHash(rp.last_hash, d.final_obs_hash)
              /\ Len(rp.head) = 4

\* A document without frameskip, repeat_action_probability and every other
\* optional key, whose replay of two actions printed its verdict.
C27_Witness ==
    /\ run_json.missing = OptionalKeys
    /\ rp.pc = "reported"
    /\ rp.step = 2
    /\ rp.head[1].value = "n/a"

\* The required keys the document lacks; without "spec" it lacks the keys of
\* "spec" too.
MissingRequired(d) ==
    (Range(RequiredKeys) \cap d.missing) \cup
    (IF "spec" \in d.missing THEN {"env_id", "seed"} ELSE {})

\* C28: when the document lacks a required key (spec, actions, total_reward,
\* final_obs_hash, spec.env_id, spec.seed), replay ends with a KeyError that
\* names a required key the document lacks, no reset or step of the
\* environment was called, and nothing of the report was printed.
C28_MalformedArtifact ==
    LET d == run_json IN
    (ReplayLoaded /\ MissingRequired(d) # {}) =>
        /\ rp.pc = "crashed"
        /\ rp.err.type = "KeyError"
        /\ rp.err.name \in MissingRequired(d)
        /\ rp.err.name = FirstMissing(d)
        /\ rp_env.calls = <<>>
        /\ rp.out = <<>> /\ rp.head = <<>>

\* A document that lacks only spec.seed: replay ended with KeyError 'seed'
\* after constructing the environment.
C28_Witness ==
    /\ run_json.missing = {"seed"}
    /\ rp.pc = "crashed"
    /\ rp.err.name = "seed"
    /\ rp.env_ctor # <<>>


\* ---------------------------------------------------------------------------
\* The fingerprint.

\* The pair (shape, row-major bytes) of an array.
ShapeAndBytes(o) == <<o.shape, RowMajor(o)>>

\* C29: two arrays have the same payload exactly when they have the same
\* shape and the same row-major bytes, and the same digest exactly when they
\* have the same payload; hashing an array again gives the same digest; a
\* digest has 64 characters.
C29_FingerprintCanonical ==
    api.fn = "obs_hash" =>
        LET o1 == api.args[1]
            o2 == api.args[2]
        IN  /\ (api.payloads[1] = api.payloads[2]) <=> (ShapeAndBytes(o1) = ShapeAndBytes(o2))
            /\ (api.rets[1] = api.rets[2]) <=> (ShapeAndBytes(o1) = ShapeAndBytes(o2))
            /\ api.rets[3] = api.rets[1]
            /\ \A i \in 1..3 : api.rets[i].len = 64

\* Two arrays with the same bytes and different shapes were hashed, and their
\* digests differ.
C29_Witness ==
    /\ api.fn = "obs_hash"
    /\ api.args[1].shape = <<2>> /\ api.args[2].shape = <<1, 2>>
    /\ RowMajor(api.args[1]) = RowMajor(api.args[2])
    /\ api.rets[1] # api.rets[2]


\* ---------------------------------------------------------------------------
\* The final fingerprint of a recording.

\* The last step call of a finished recording's log (0 if no step was made).
LastStepCall(c) ==
    IF StepCalls(c) = {} THEN 0
    ELSE CHOOSE i \in StepCalls(c) : \A j \in StepCalls(c) : j <= i

\* C30 as stated: post-reset observation whenever the last recorded step
\* ended an episode.
C30_FinalFingerprint ==
    rec.pc = "done" =>
        LET c == rec_env.calls
            k == LastStepCall(c)
        IN  /\ run_json.final_obs_hash = rec.final_hash
            /\ IF k = 0
               THEN rec.final_hash = obs_hash(c[1].ret)
               ELSE IF k \in DoneCalls(c)
               THEN /\ k < Len(c)
                    /\ c[k + 1].op = "reset"
                    /\ rec.final_hash = obs_hash(c[k + 1].ret)
               ELSE rec.final_hash = obs_hash(c[k].ret.obs)

\* C30: the artifact's final_obs_hash is the fingerprint of the post-reset
\* observation if the last recorded step ended an episode and single_episode
\* is not set (the reset seeded seed + step + 1 follows that step); of the
\* observation returned by the last recorded step otherwise, which includes
\* the step that ended the episode of a single-episode recording; and of the
\* initial reset's observation when no step was recorded.
C30_FinalFingerprintByMode ==
    rec.pc = "done" =>
        LET c == rec_env.calls
            k == LastStepCall(c)
        IN  /\ run_json.final_obs_hash = rec.final_hash
            /\ IF k = 0
               THEN rec.final_hash = obs_hash(c[1].ret)
               ELSE IF k \in DoneCalls(c) /\ ~args.single_episode
               THEN /\ c[k + 1].op = "reset"
                    /\ c[k + 1].arg = args.seed + StepIndex(c, k) + 1
                    /\ rec.final_hash = obs_hash(c[k + 1].ret)
               ELSE /\ c[k + 1].op = "close"
                    /\ rec.final_hash = obs_hash(c[k].ret.obs)

\* A multi-episode recording ended on a step that ended an episode, and the
\* reset after it returned another observation than the step.
C30_Witness ==
    /\ rec.pc = "done"
    /\ ~args.single_episode
    /\ LET c == rec_env.calls
           k == LastStepCall(c)
       IN  /\ k \in DoneCalls(c)
           /\ c[k + 1].op = "reset"
           /\ c[k + 1].ret # c[k].ret.obs


\* ---------------------------------------------------------------------------
\* Replay of the action list.

\* C31: between iterations of a replay the step calls made are the first
\* rp.step recorded actions, in order; a replay that is over has made exactly
\* len(actions) step calls, whatever done flags the steps returned.
C31_ReplayVerbatim ==
    rp.pc \in {"loop", "reported", "exited"} =>
        /\ StepActions(rp_env.calls) = SubSeq(run_json.actions, 1, rp.step)
        /\ Cardinality(StepCalls(rp_env.calls)) = rp.step
        /\ ReplayOver => StepActions(rp_env.calls) = run_json.actions

\* A replay of three actions, not all the same, is over, and its first step
\* was done.
C31_Witness ==
    /\ ReplayOver
    /\ Len(run_json.actions) = 3
    /\ run_json.actions[1] # run_json.actions[2]
    /\ \E i \in DoneCalls(rp_env.calls) : StepIndex(rp_env.calls, i) = 0


\* ---------------------------------------------------------------------------
\* The telemetry ledger.

\* C32: the ledger has one row per environment step, with step = 0, 1, 2, ...;
\* episode_id and episode_step are 0 on the first row; on the row after a done
\* row episode_id is one more and episode_step is 0, on every other row
\* episode_id is that of the row before and episode_step is one more; the
\* done column is terminated OR truncated.
C32_LedgerCounters ==
    /\ rec.pc \in {"loop", "after_loop", "done"} =>
          Len(telemetry) = Cardinality(StepCalls(rec_env.calls))
    /\ \A i \in 1..Len(telemetry) :
          LET row == telemetry[i] IN
          /\ row.step = i - 1
          /\ row.done = BoolInt(row.terminated = 1 \/ row.truncated = 1)
          /\ IF i = 1
             THEN row.episode_id = 0 /\ row.episode_step = 0
             ELSE LET prev == telemetry[i - 1] IN
                  IF prev.done = 1
                  THEN row.episode_id = prev.episode_id + 1 /\ row.episode_step = 0
                  ELSE /\ row.episode_id = prev.episode_id
                       /\ row.episode_step = prev.episode_step + 1

\* A ledger of three rows whose first row is done and whose second is not.
C32_Witness ==
    /\ Len(telemetry) = 3
    /\ telemetry[1].done = 1
    /\ telemetry[2].done = 0
    /\ telemetry[3].episode_id = 1
    /\ telemetry[3].episode_step = 1


\* ---------------------------------------------------------------------------
\* Run directories.

\* The processes that have called _make_run_dir.
RunAttempted == { p \in DOMAIN runs.procs : runs.procs[p].pc \notin {"start", "have_id"} }

\* The run directory of process p was there when the processes started.
RunDirOfEarlierRun(p) ==
    \E f \in runs.files : f.dir = runs.procs[p].run_id /\ f.writer = 0

\* Process p ended with the FileExistsError of _make_run_dir.
RunDirRefused(p) == runs.procs[p].error = "FileExistsError"

\* C33: of two recordings that obtained the same run identifier and called
\* _make_run_dir, exactly one created the directory (none if it is the
\* directory of an earlier run); a recording whose identifier names an
\* existing directory ends with FileExistsError, having constructed no
\* environment and written no file; so every telemetry.csv and run.json has
\* one writer.
C33_RunDirNeverShared ==
    /\ \A p \in RunAttempted, q \in RunAttempted :
          (p # q /\ runs.procs[p].run_id = runs.procs[q].run_id) =>
             IF RunDirOfEarlierRun(p)
             THEN RunDirRefused(p) /\ RunDirRefused(q)
             ELSE RunDirRefused(p) # RunDirRefused(q)
    /\ \A p \in RunAttempted :
          /\ RunDirOfEarlierRun(p) => RunDirRefused(p)
          /\ RunDirRefused(p) =>
                /\ runs.procs[p].pc = "crashed"
                /\ ~runs.procs[p].env_made
                /\ \A f \in runs.files : f.writer # p
    /\ \A f \in runs.files, g \in runs.files :
          (f.dir = g.dir /\ f.name = g.name) => f.writer = g.writer

\* Two recordings obtained the same identifier: one wrote its run.json, the
\* other ended with FileExistsError.
C33_Witness ==
    /\ runs.procs # <<>>
    /\ runs.procs[1].run_id = runs.procs[2].run_id
    /\ runs.procs[1].pc = "crashed"
    /\ RunDirRefused(1)
    /\ runs.procs[2].pc = "done"


\* ---------------------------------------------------------------------------
\* The reward accumulators of the recorder.

\* The rewards of steps from..to of a sequence of step calls, summed.
RewardSum(st, from, to) ==
    LET sum[i \in (from - 1)..to] ==
            IF i = from - 1 THEN 0 ELSE sum[i - 1] + st[i].ret.reward
    IN  sum[to]

\* The first step of the episode of step i: the latest step up to i that is
\* the first of all or follows a done step.
EpisodeStart(st, i) ==
    CHOOSE k \in 1..i :
        /\ k = 1 \/ (st[k - 1].ret.terminated \/ st[k - 1].ret.truncated)
        /\ \A j \in (k + 1)..i : ~(st[j - 1].ret.terminated \/ st[j - 1].ret.truncated)

\* C34: the recorder's total_reward, and the artifact's, is the sum of the
\* rewards of all steps made, across episodes; the episode_return of ledger
\* row i is the sum of the rewards of the steps from the first step of row
\* i's episode to step i, so it restarts after each reset that follows a done
\* step.
C34_RewardAccumulators ==
    LET st == SelectSeq(rec_env.calls, IsStepCall) IN
    rec.pc \in {"loop", "after_loop", "done"} =>
        /\ rec.total_reward = RewardSum(st, 1, Len(st))
        /\ rec.pc = "done" => run_json.total_reward = RewardSum(st, 1, Len(st))
        /\ \A i \in 1..Len(telemetry) :
              telemetry[i].episode_return = Fmt6(RewardSum(st, EpisodeStart(st, i), i))

\* A finished recording of two episodes that both earned a reward: the last
\* row's episode_return is less than the artifact's total_reward.
C34_Witness ==
    /\ rec.pc = "done"
    /\ Len(telemetry) >= 2
    /\ telemetry[1].done = 1
    /\ telemetry[1].episode_return > 0
    /\ telemetry[Len(telemetry)].episode_return > 0
    /\ telemetry[Len(telemetry)].episode_id >= 1
    /\ Fmt6(run_json.total_reward) > telemetry[Len(telemetry)].episode_return


\* ---------------------------------------------------------------------------
\* The state of StickyDirectionalPolicy.

\* C35: after a reset that returned and after every act call that followed,
\* every action act returned is a member of the direction set computed at
\* that reset, dir_actions is still that set, 0 <= cur_idx < len(dir_actions)
\* and cur_action = dir_actions[cur_idx].
C35_StickyStateInvariant ==
    (pol.phase = "run" /\ pol.A.name = "sticky_dir") =>
        LET dirs == PolicyReset(pol.prior, pol.reset_args).dir_actions IN
        /\ pol.A.dir_actions = dirs
        /\ Range(pol.outsA) \subseteq Range(dirs)
        /\ 0 <= pol.A.cur_idx /\ pol.A.cur_idx < Len(pol.A.dir_actions)
        /\ pol.A.cur_action = pol.A.dir_actions[pol.A.cur_idx + 1]

\* After two act calls the policy points at another direction than the first
\* of its direction set.
C35_Witness ==
    /\ pol.phase = "run"
    /\ pol.A.name = "sticky_dir"
    /\ pol.acts >= 2
    /\ pol.A.cur_idx > 0
    /\ pol.outsA[Len(pol.outsA)] = pol.A.dir_actions[pol.A.cur_idx + 1]


\* C36: for a StickyDirectionalPolicy with stuck_window >= 1, after a reset
\* that returned and after every act call, whatever the rewards, done flags
\* and jitter draws, 0 <= steps_since_progress <= stuck_window - 1.
C36_ProgressCounterBound ==
    \A p \in {pol.A, pol.B} :
        (/\ pol.phase \in {"prior_reset", "prior_used", "run"}
         /\ p.name = "sticky_dir"
         /\ p.stuck_window >= 1
         /\ p.rng # NoRng) =>
            /\ 0 <= p.since_progress
            /\ p.since_progress <= p.stuck_window - 1

\* A policy with a window of at least two rests one short of the threshold
\* after three act calls.
C36_Witness ==
    /\ pol.phase = "run"
    /\ pol.A.name = "sticky_dir"
    /\ pol.A.stuck_window >= 2
    /\ pol.acts >= 3
    /\ pol.A.since_progress = pol.A.stuck_window - 1


\* C37: two instances of one class reset identically and given act calls with
\* the same reward and done values but different step indices and
\* observations (for RandomPolicy also different reward and done values)
\* return the same actions and are in the same state after every call.
C37_PolicyNonInterference ==
    (pol.phase \in {"run", "raised"} /\ pol.acts >= 1) =>
        /\ pol.last_calls[1].step # pol.last_calls[2].step
        /\ pol.last_calls[1].obs # pol.last_calls[2].obs
        /\ pol.outsA = pol.outsB
        /\ pol.A = pol.B

\* A StickyDirectionalPolicy pair after three calls that differed in step and
\* observation, the direction having changed; for the random pair see
\* C37_Witness's second disjunct: calls that differed in reward and done.
C37_Witness ==
    /\ pol.phase = "run"
    /\ pol.acts >= 3
    /\ \/ /\ pol.A.name = "sticky_dir"
          /\ pol.A.cur_idx > 0
          /\ pol.last_calls[1].obs # pol.last_calls[2].obs
       \/ /\ pol.A.name = "random"
          /\ pol.last_calls[1].reward # pol.last_calls[2].reward
          /\ pol.last_calls[1].done # pol.last_calls[2].done


\* ---------------------------------------------------------------------------
\* The recorder's policy.

\* C38: a recording resets its policy exactly once, with args.seed, after the
\* environment was constructed and before the environment's first reset; no
\* reset of the environment after a done step resets the policy again.
C38_PolicySeededOnce ==
    /\ rec.pc \in {"argv", "start"} => rec.policy_resets = <<>>
    /\ rec.pc \in {"loop", "after_loop", "done"} =>
          /\ Len(rec.policy_resets) = 1
          /\ rec.policy_resets[1].seed = args.seed
          /\ rec.policy_resets[1].ctor_calls = 1
          /\ rec.policy_resets[1].env_calls = 0
          /\ rec_env.calls[1].op = "reset"

\* A finished recording whose environment was reset again after a done step.
C38_Witness ==
    /\ rec.pc = "done"
    /\ Cardinality(ResetCalls(rec_env.calls)) >= 2
    /\ Len(rec.policy_calls) >= 2
    /\ args.seed # 0


\* ---------------------------------------------------------------------------
\* What the verdict of a replay depends on.

\* Two call logs are the same: as long, and call by call the same operation
\* with the same argument and the same answer.
SameCalls(a, b) ==
    /\ Len(a) = Len(b)
    /\ \A i \in 1..Len(a) : a[i].op = b[i].op /\ a[i] = b[i]

\* C39: two artifacts that differ only in spec.env_key, spec.obs_type,
\* spec.policy, spec.steps or spec.single_episode (present with other values,
\* or absent) make replay construct the same environment, make the same
\* environment calls and end with the same exit outcome.
C39_VerdictNonInterference ==
    (api.fn = "replay" /\ rp.pc \in {"exited", "crashed"}) =>
        /\ rp.env_ctor = api.ctor
        /\ SameCalls(rp_env.calls, api.calls)
        /\ rp.exit = api.exit
        /\ rp.err = api.err

\* The second replay has ended with a mismatch, after a reset that followed a
\* done step, for an artifact without the five keys and with other values of them.
C39_Witness ==
    /\ api.fn = "replay"
    /\ rp.pc = "exited"
    /\ rp.exit = <<MismatchExit>>
    /\ Cardinality(ResetCalls(rp_env.calls)) >= 2
    /\ UnreadKeys \subseteq run_json.missing
    /\ api.data.missing = {}
    /\ run_json.spec.steps # api.data.spec.steps
    /\ run_json.spec.policy # api.data.spec.policy
    /\ run_json.spec.env_key # api.data.spec.env_key
    /\ run_json.spec.single_episode # api.data.spec.single_episode


\* ---------------------------------------------------------------------------
\* Video export and replay.

\* The reset and step calls of a call log, in order.
ProtocolCalls(c) == SelectSeq(c, LAMBDA x : x.op \in {"reset", "step"})

\* Call log a is the beginning of call log b.
IsPrefixOf(a, b) ==
    /\ Len(a) <= Len(b)
    /\ \A i \in 1..Len(a) : a[i].op = b[i].op /\ a[i] = b[i]

\* export_video has loaded the artifact and reset the environment.
ExportBegun == ex.pc \in {"loop", "after_loop", "closed", "done", "crashed"} /\ ex.data # NoFile

\* export_video has ended after it had loaded the artifact.
ExportEnded == ex.pc \in {"done", "crashed"} /\ ex.data # NoFile

\* The environment has render_rgb and --capture-every is not 0.
ExportCanRender == "render_rgb" \in ex.attrs /\ ex.capture_every # 0

\* The reseed protocol on the export's call log: the first call is
\* reset(spec.seed), and a reset(spec.seed + k + 1) follows exactly the step
\* calls of action index k that were done.
ExportReseeds ==
    LET p == ProtocolCalls(ex_env.calls) IN
    /\ p # <<>>
    /\ \A i \in 1..Len(p) :
          LET k == Cardinality(StepCalls(SubSeq(p, 1, i))) - 1 IN
          /\ p[i].op = "reset" <=>
                (i = 1 \/ (p[i - 1].op = "step" /\ ExportDone(p[i - 1].ret)))
          /\ p[i].op = "reset" =>
                p[i].arg = IF i = 1 THEN ex.data.spec.seed
                           ELSE ex.data.spec.seed + k + 1
          /\ p[i].op = "step" => p[i].arg = ex.data.actions[k + 1]

\* The claim on one state of an export.
ExportFollowsReplay ==
    /\ ExportBegun => ExportReseeds
    /\ (ExportBegun /\ ReplayOver) =>
          IsPrefixOf(ProtocolCalls(ex_env.calls), ProtocolCalls(rp_env.calls))
    /\ ExportEnded =>
          /\ \/ Cardinality(StepCalls(ex_env.calls)) = Len(ex.data.actions)
             \/ ExportCapReached(ex.max_frames, ex.frames)
          /\ Cardinality(CloseCalls(ex_env.calls)) = 1
          /\ ex.frames = <<>> => (ex.err # NoError /\ ex.video = <<>>)
    /\ ex.video # <<>> =>
          /\ Cardinality(CloseCalls(ex_env.calls)) = 1
          /\ ex_env.calls[Len(ex_env.calls)].op = "close"

\* C40: for the same artifact and the same environment answers, export_video
\* resets once with spec.seed and with spec.seed + k + 1 after every done step
\* of action index k, its reset and step calls are the beginning of replay's up
\* to where the max-frames cap stops it, it closes the environment exactly once
\* before it writes a video, and without a captured frame it raises an error
\* and writes no video.
C40_ExportFollowsReplay == ExportFollowsReplay

=============================================================================
